---- MODULE Spec2Model ----
(***************************************************************************)
(* Model of the ingestion-and-characterization pipeline of the mechanical  *)
(* test tooling: test_data.py (import_data_text) and test_ledi.py          *)
(* (Mechanical_test hierarchy and the report classes' standards maps).     *)
(*                                                                         *)
(* Conventions.  Positions are 0-based as in Python; TLA+ sequences are    *)
(* 1-based, so position p of a column c is c[p + 1].  A DataFrame is a     *)
(* record of columns of equal length; its row labels are the column        *)
(* "index".  Channel values are integers; values produced by integration   *)
(* and interpolation are exact rationals <<num, den>> in lowest terms      *)
(* (floating-point rounding is not modelled).                              *)
(***************************************************************************)
EXTENDS Integers, Sequences, FiniteSets, TLC

VARIABLES
    \* ---- one Toughness_mechanical_test object (test_ledi.py)
    data,          \* self.data: [index, Load, Deflection, Toughness]
    maxLoad,       \* self.maxLoad
    idx,           \* self.idx: [i, f, iL, maxLoad]
    defl_cps,      \* self.defl_cps: sequence of rows [x, Load, Toughness]
    data_process,  \* self.data_process: the labels of the rows it holds
    x_points,      \* the defl_points argument of preprocess_data
    x_col,         \* the x_col argument of preprocess_data
    variant,       \* the class of the object: "Toughness" or "Resistance"
    ncalls,        \* direct make_positive_data() calls made before preprocess_data
    peaks,         \* what find_peaks returned in get_first_peak
    pc,            \* position inside preprocess_data
    raised,        \* the exception that ended the call, "none" otherwise
    \* ---- one call of import_data_text (test_data.py)
    file,          \* the file at file_path: lines, detected encoding, decodability
    args,          \* the arguments of the call
    delimiter,     \* local delimiter (rebound by the auto-detection)
    skiprows,      \* local skiprows (rebound by the header detection)
    encodings_to_try,
    attempt,       \* index of the next iteration of the encoding loop
    reads,         \* every pd.read_csv call so far: [encoding, pass]
    df,            \* local df: [none, rows]
    ipc,           \* position inside import_data_text
    iraised,       \* the exception that ended the call, "none" otherwise
    \* ---- one report object (test_ledi.py)
    report,        \* [cls, standard_test, samples_id, defl_points, tests]
    imported,      \* sample ids whose specimen file add_tests has read so far
    rcall,         \* the method running or last run: [name, k]
    rpc,           \* "constructed", "add_tests", "returned" or "raised"
    rraised,       \* the exception that ended the last call, "none" otherwise
    \* ---- one call of a file-reading function of test_data.py and its handles
    hcall,         \* [fn, auto_detect_header, faults]: the function and what fails
    hpc,           \* position inside the call
    handles,       \* the file and workbook handles the call holds open
    hraised,       \* the exception that ended the call, "none" otherwise
    \* ---- one call of make_report_file of a report class (test_ledi.py)
    report_cls,    \* the class whose make_report_file runs
    environ,       \* what exists on disk and which collaborators work
    pdfs,          \* which of report_file and plots_file exist
    stages,        \* the PDF steps that completed, in order
    gpc,           \* position inside make_report_file
    graised,       \* the exception that ended the call, "none" otherwise
    \* ---- the fields Tapa_buzon_flexion_test adds to its specimen (test_ledi.py)
    umbral_kN,     \* self.umbral_kN
    resultado,     \* self.resultado
    tcall,         \* the Tapa method that ran last, "none" before any
    tret,          \* what that method returned
    \* ---- one call of import_data_excel (test_data.py)
    sheet,         \* the worksheet: its rows, from worksheet row 1
    xargs,         \* the arguments of the call
    xskiprows,     \* local skiprows (rebound by the header detection)
    header_candidate, \* local header_candidate: a worksheet row, 0 for None
    xdf,           \* local df: rows [label, src] with src the worksheet row
    xpc,           \* position inside import_data_excel
    xraised        \* the exception that ended the call, "none" otherwise

callArgs == <<x_points, x_col, variant, ncalls>>

charVars ==
    <<data, maxLoad, idx, defl_cps, data_process, x_points, x_col, variant, ncalls,
      peaks, pc, raised>>

impVars == <<file, args, delimiter, skiprows, encodings_to_try, attempt, reads, df, ipc, iraised>>

repVars == <<report, imported, rcall, rpc, rraised>>

hVars == <<hcall, hpc, handles, hraised>>

genVars == <<report_cls, environ, pdfs, stages, gpc, graised>>

tapaVars == <<umbral_kN, resultado, tcall, tret>>

xlVars == <<sheet, xargs, xskiprows, header_candidate, xdf, xpc, xraised>>

vars == <<charVars, impVars, repVars, hVars, genVars, tapaVars, xlVars>>

\* what the actions of one object leave alone
notChar == <<impVars, repVars, hVars, genVars, tapaVars, xlVars>>
notImp == <<charVars, repVars, hVars, genVars, tapaVars, xlVars>>
notRep == <<charVars, impVars, hVars, genVars, tapaVars, xlVars>>
notH == <<charVars, impVars, repVars, genVars, tapaVars, xlVars>>
notGen == <<charVars, impVars, repVars, hVars, tapaVars, xlVars>>
notTapa == <<charVars, impVars, repVars, hVars, genVars, xlVars>>
notXl == <<charVars, impVars, repVars, hVars, genVars, tapaVars>>

(***************************************************************************)
(* Arithmetic helpers                                                      *)
(***************************************************************************)
Abs(v) == IF v < 0 THEN -v ELSE v

RECURSIVE GCD(_, _)
GCD(a, b) == IF b = 0 THEN a ELSE GCD(b, a % b)

\* the rational n/d (d # 0) in lowest terms with a positive denominator
Rat(n, d) ==
    LET s == IF d < 0 THEN -1 ELSE 1
        g == GCD(Abs(n), Abs(d))
    IN  <<(s * n) \div g, (s * d) \div g>>

RInt(v) == <<v, 1>>
RAdd(p, q) == Rat(p[1] * q[2] + q[1] * p[2], p[2] * q[2])
RSub(p, q) == Rat(p[1] * q[2] - q[1] * p[2], p[2] * q[2])
RMul(p, q) == Rat(p[1] * q[1], p[2] * q[2])
RDiv(p, q) == Rat(p[1] * q[2], p[2] * q[1])
RLeq(p, q) == p[1] * q[2] <= q[1] * p[2]

SeqMap(Op(_), s) == [k \in 1..Len(s) |-> Op(s[k])]

(***************************************************************************)
(* Bounds of the characterization inputs                                   *)
(***************************************************************************)
MaxRows == 4        \* rows of an imported dataset
MaxDropped == 1     \* rows the importer's row filter removed from the table

LoadValues == {-2, 0, 1, 2}
ToughSteps == {1}      \* Deflection increments between rows
\* sampling grids: none, short ones (ascending or not), and EFNARC1996
Grids == {<<>>, <<1, 2>>, <<3, 1>>, <<5, 10, 15, 20, 25, 30>>}

(***************************************************************************)
(* numpy / pandas primitives used by test_ledi.py                          *)
(***************************************************************************)
np_abs(col) == [k \in 1..Len(col) |-> Abs(col[k])]

np_max(col) ==
    CHOOSE m \in {col[k] : k \in 1..Len(col)} : \A k \in 1..Len(col) : col[k] <= m

np_min(col) ==
    CHOOSE m \in {col[k] : k \in 1..Len(col)} : \A k \in 1..Len(col) : m <= col[k]

\* np.argmax / np.argmin: the first position holding the extreme value
np_argmax(col) ==
    CHOOSE p \in 0..(Len(col) - 1) :
        /\ col[p + 1] = np_max(col)
        /\ \A q \in 0..(p - 1) : col[q + 1] # np_max(col)

np_argmin(col) ==
    CHOOSE p \in 0..(Len(col) - 1) :
        /\ col[p + 1] = np_min(col)
        /\ \A q \in 0..(p - 1) : col[q + 1] # np_min(col)

\* scipy.integrate.cumulative_trapezoid(y, x, initial=0)
RECURSIVE cumulative_trapezoid(_, _, _)
cumulative_trapezoid(y, x, k) ==
    IF k = 1 THEN RInt(0)
    ELSE RAdd(cumulative_trapezoid(y, x, k - 1),
              Rat((x[k] - x[k - 1]) * (y[k] + y[k - 1]), 2))

\* np.interp(xq, x, y) for one abscissa xq: y[0] left of x[0], y[-1] right of
\* x[-1]; otherwise j is the position the search returns (for up to 4 nodes a
\* linear scan: one before the first node from x[1] on that exceeds xq), the
\* stored value if j is the last node or x[j] = xq, the chord from j otherwise.
\* On a non-decreasing x this j is the last node with x[j] <= xq, as for the
\* bisection numpy uses on longer arrays.
\* (mutant) the last node strictly below xq, as a left-sided search gives
search_index_Left(xq, x) ==
    LET below == {p \in 1..Len(x) : x[p] < xq}
    IN  IF below = {} THEN 1 ELSE CHOOSE p \in below : \A q \in below : q <= p

search_index(xq, x) ==
    LET n == Len(x)
        above == {p \in 2..n : xq < x[p]}
    IN  IF above = {} THEN n
        ELSE (CHOOSE p \in above : \A q \in above : p <= q) - 1

\* (mutant) beyond the last node the last chord is extended
np_interp_Extrapolate(xq, x, y) ==
    LET n == Len(x)
        j == search_index(xq, x)
    IN  IF xq < x[1] THEN y[1]
        ELSE IF xq > x[n]
        THEN IF n >= 2 /\ x[n] # x[n - 1]
             THEN RAdd(RMul(RDiv(RSub(y[n], y[n - 1]), RInt(x[n] - x[n - 1])),
                            RInt(xq - x[n])),
                       y[n])
             ELSE y[n]
        ELSE IF j = n \/ x[j] = xq THEN y[j]
        ELSE RAdd(RMul(RDiv(RSub(y[j + 1], y[j]), RInt(x[j + 1] - x[j])),
                       RInt(xq - x[j])),
                  y[j])

np_interp(xq, x, y) ==
    LET n == Len(x)
        j == search_index(xq, x)
    IN  IF xq < x[1] THEN y[1]
        ELSE IF xq > x[n] THEN y[n]
        ELSE IF j = n \/ x[j] = xq THEN y[j]
        ELSE RAdd(RMul(RDiv(RSub(y[j + 1], y[j]), RInt(x[j + 1] - x[j])),
                       RInt(xq - x[j])),
                  y[j])

\* DataFrame helpers: number of rows, DataFrame.empty, rows by position
NRows(fr) == Len(fr.index)
\* (mutant) DataFrame.empty taken as "has no columns": false for every table
IsEmpty_NoColumns(fr) == DOMAIN fr = {}

IsEmpty(fr) == NRows(fr) = 0
EmptyFrame ==
    [index |-> <<>>, Load |-> <<>>, Deflection |-> <<>>, CMOD |-> <<>>, Toughness |-> <<>>]

\* the positions (0-based) of the rows whose label satisfies Keep
RECURSIVE SelectPos(_, _, _)
SelectPos(labels, Keep(_), k) ==
    IF k > Len(labels) THEN <<>>
    ELSE (IF Keep(labels[k]) THEN <<k - 1>> ELSE <<>>) \o SelectPos(labels, Keep, k + 1)

Take(col, pos) == [k \in 1..Len(pos) |-> col[pos[k] + 1]]

SubFrame(fr, pos) ==
    [index |-> Take(fr.index, pos), Load |-> Take(fr.Load, pos),
     Deflection |-> Take(fr.Deflection, pos), CMOD |-> Take(fr.CMOD, pos),
     Toughness |-> IF fr.Toughness = <<>> THEN <<>> ELSE Take(fr.Toughness, pos)]

\* df.loc[:hi, col] and fr.loc[lo:, :] on a sorted integer index: label slices,
\* both ends inclusive
LocUpTo(fr, hi) == SelectPos(fr.index, LAMBDA l : l <= hi, 1)
LocFrom(fr, lo) == SelectPos(fr.index, LAMBDA l : l >= lo, 1)

\* df.loc[[l1, l2, l3], cols]: label lookup, KeyError when a label is absent
HasLabel(fr, l) == \E k \in 1..NRows(fr) : fr.index[k] = l
PosOfLabel(fr, l) == CHOOSE k \in 1..NRows(fr) : fr.index[k] = l

(***************************************************************************)
(* Mechanical_test / Toughness_mechanical_test (test_ledi.py)              *)
(***************************************************************************)
\* Mechanical_test.__init__ and Toughness_mechanical_test.__init__
idx0 == [i |-> 0, f |-> 0, iL |-> 0, maxLoad |-> 0]

\* the exception ends preprocess_data; nothing else is written
Raise(e) ==
    /\ pc' = "raised"
    /\ raised' = e

\* make_positive_data: every column replaced by its absolute value
\* (mutant) the sign of every value is flipped
PositiveFrame_Negate(fr) ==
    [index |-> fr.index, Load |-> [k \in 1..Len(fr.Load) |-> -fr.Load[k]],
     Deflection |-> [k \in 1..Len(fr.Deflection) |-> -fr.Deflection[k]],
     CMOD |-> [k \in 1..Len(fr.CMOD) |-> -fr.CMOD[k]],
     Toughness |-> [k \in 1..Len(fr.Toughness) |->
                       <<-fr.Toughness[k][1], fr.Toughness[k][2]>>]]

PositiveFrame(fr) ==
    [index |-> fr.index, Load |-> np_abs(fr.Load), Deflection |-> np_abs(fr.Deflection),
     CMOD |-> np_abs(fr.CMOD),
     Toughness |-> [k \in 1..Len(fr.Toughness) |->
                       <<Abs(fr.Toughness[k][1]), fr.Toughness[k][2]>>]]

make_positive_data ==
    /\ pc = "make_positive_data"
    /\ UNCHANGED notChar
    /\ IF IsEmpty(data)
       THEN /\ Raise("ValueError")
            /\ UNCHANGED <<data, maxLoad, idx, defl_cps, data_process, callArgs, peaks>>
       ELSE /\ data' = PositiveFrame(data)
            /\ pc' = "get_max_load"
            /\ UNCHANGED <<maxLoad, idx, defl_cps, data_process, callArgs, peaks, raised>>

\* get_max_load: position and value of the largest |Load|
\* (mutant) the last position holding the maximum instead of the first
MaxLoadIndex_Last(load) ==
    CHOOSE p \in 0..(Len(load) - 1) :
        /\ Abs(load[p + 1]) = np_max(np_abs(load))
        /\ \A q \in (p + 1)..(Len(load) - 1) : Abs(load[q + 1]) # np_max(np_abs(load))

MaxLoadIndex(load) == np_argmax(np_abs(load))
MaxLoadValue(load) == np_max(np_abs(load))

get_max_load ==
    /\ pc = "get_max_load"
    /\ UNCHANGED notChar
    /\ IF IsEmpty(data)
       THEN /\ Raise("ValueError")
            /\ UNCHANGED <<data, maxLoad, idx, defl_cps, data_process, callArgs, peaks>>
       ELSE /\ idx' = [idx EXCEPT !.maxLoad = MaxLoadIndex(data.Load)]
            /\ maxLoad' = MaxLoadValue(data.Load)
            /\ pc' = IF variant = "Resistance" THEN "resistance_bounds" ELSE "get_toughness"
            /\ UNCHANGED <<data, defl_cps, data_process, callArgs, peaks, raised>>

\* get_toughness: cumulative integral of Load over the Deflection column
\* (mutant) the area of each interval by itself, not accumulated
ToughnessColumn_NotCumulative(fr) ==
    [k \in 1..NRows(fr) |->
        IF k = 1 THEN RInt(0)
        ELSE Rat((fr.Deflection[k] - fr.Deflection[k - 1]) * (fr.Load[k] + fr.Load[k - 1]), 2)]

ToughnessColumn(fr) ==
    [k \in 1..NRows(fr) |-> cumulative_trapezoid(fr.Load, fr.Deflection, k)]

get_toughness_SkipFirstPeak ==
    /\ pc = "get_toughness"
    /\ UNCHANGED notChar
    /\ data' = [data EXCEPT !.Toughness = ToughnessColumn(data)]
    /\ pc' = "range_bounds"
    /\ UNCHANGED <<maxLoad, idx, defl_cps, data_process, callArgs, peaks, raised>>

get_toughness ==
    /\ pc = "get_toughness"
    /\ UNCHANGED notChar
    /\ data' = [data EXCEPT !.Toughness = ToughnessColumn(data)]
    /\ pc' = "get_first_peak"
    /\ UNCHANGED <<maxLoad, idx, defl_cps, data_process, callArgs, peaks, raised>>

\* scipy.signal.find_peaks(Load, height=0.5*maxLoad, prominence=..., width=10):
\* an ascending array of interior positions that are local maxima of height
\* >= 0.5*maxLoad.  The prominence and width tests only remove candidates, so
\* the call may return any subset of the candidates.
PeakCandidates(load, mx) ==
    {p \in 1..(Len(load) - 2) :
        /\ 2 * load[p + 1] >= mx
        /\ load[p] < load[p + 1]
        /\ load[p + 2] <= load[p + 1]}

RECURSIVE SortedSeq(_)
SortedSeq(S) ==
    IF S = {} THEN <<>>
    ELSE LET m == CHOOSE v \in S : \A w \in S : v <= w
         IN  <<m>> \o SortedSeq(S \ {m})

\* get_first_peak, lines 163-166: the first qualifying peak unless there is
\* none or it lies after the global maximum
\* (mutant) the comparison with the global maximum is dropped
FirstPeakIndex_NoCompare(pk, imax) ==
    IF Len(pk) = 0 THEN imax ELSE pk[1]

FirstPeakIndex(pk, imax) ==
    IF Len(pk) = 0 \/ pk[1] > imax THEN imax ELSE pk[1]

get_first_peak ==
    /\ pc = "get_first_peak"
    /\ UNCHANGED notChar
    /\ \E P \in SUBSET PeakCandidates(data.Load, maxLoad) :
          /\ peaks' = SortedSeq(P)
          /\ idx' = [idx EXCEPT !.iL = FirstPeakIndex(SortedSeq(P), idx.maxLoad)]
    /\ pc' = "range_bounds"
    /\ UNCHANGED <<data, maxLoad, defl_cps, data_process, callArgs, raised>>

\* preprocess_data, lines 235-238: lower bound at 1% of maxLoad among the rows
\* labelled <= imaxP, upper bound the last position, data_process the rows
\* labelled >= idx['i'].  |Load - 0.01*maxLoad| is compared scaled by 100.
LowerBoundIndex(fr, imaxP, mx) ==
    np_argmin([k \in 1..Len(LocUpTo(fr, imaxP)) |->
                  Abs(100 * Take(fr.Load, LocUpTo(fr, imaxP))[k] - mx)])

range_bounds ==
    /\ pc = "range_bounds"
    /\ UNCHANGED notChar
    /\ IF LocUpTo(data, idx.maxLoad) = <<>>
       THEN \* np.argmin of an empty array
            /\ Raise("ValueError")
            /\ UNCHANGED <<data, maxLoad, idx, defl_cps, data_process, callArgs, peaks>>
       ELSE LET i == LowerBoundIndex(data, idx.maxLoad, maxLoad) IN
            /\ idx' = [idx EXCEPT !.i = i, !.f = NRows(data) - 1]
            /\ data_process' = SubFrame(data, LocFrom(data, i))
            /\ pc' = "get_defl_cps"
            /\ UNCHANGED <<data, maxLoad, defl_cps, callArgs, peaks, raised>>

\* get_defl_cps: the rows labelled iL, maxLoad, f followed by one interpolated
\* row per grid abscissa, over the column x_col; the columns kept are x_col,
\* Load and Toughness (include_extra_cols only adds columns)
Column(fr, xc) == IF xc = "CMOD" THEN fr.CMOD ELSE fr.Deflection

RowAtPos(fr, xc, k) ==
    [x |-> RInt(Column(fr, xc)[k]), Load |-> RInt(fr.Load[k]), Toughness |-> fr.Toughness[k]]

InterpRow(fr, xc, g) ==
    [x |-> RInt(g),
     Load |-> np_interp(g, Column(fr, xc), SeqMap(RInt, fr.Load)),
     Toughness |-> np_interp(g, Column(fr, xc), fr.Toughness)]

NamedLabels(ix) == <<ix.iL, ix.maxLoad, ix.f>>

CpsTable(fr, ix, xc, grid) ==
    [k \in 1..3 |-> RowAtPos(fr, xc, PosOfLabel(fr, NamedLabels(ix)[k]))]
        \o [k \in 1..Len(grid) |-> InterpRow(fr, xc, grid[k])]

get_defl_cps ==
    /\ pc = "get_defl_cps"
    /\ UNCHANGED notChar
    /\ IF \E k \in 1..3 : ~HasLabel(data, NamedLabels(idx)[k])
       THEN /\ Raise("KeyError")
            /\ UNCHANGED <<data, maxLoad, idx, defl_cps, data_process, callArgs, peaks>>
       ELSE /\ defl_cps' = CpsTable(data, idx, x_col, x_points)
            /\ pc' = "done"
            /\ UNCHANGED <<data, maxLoad, idx, data_process, callArgs, peaks, raised>>

\* Resistance_mechanical_test.preprocess_data, lines 140-143: lower bound at
\* 1% of maxLoad among the rows labelled <= imaxP, upper bound at 75% among
\* the rows labelled >= imaxP, data_process the rows labelled i..f.
\* Differences are compared scaled by 100.
UpperBoundIndex(fr, imaxP, mx) ==
    np_argmin([k \in 1..Len(LocFrom(fr, imaxP)) |->
                  Abs(100 * Take(fr.Load, LocFrom(fr, imaxP))[k] - 75 * mx)]) + imaxP

LocBetween(fr, lo, hi) == SelectPos(fr.index, LAMBDA l : l >= lo /\ l <= hi, 1)

resistance_bounds ==
    /\ pc = "resistance_bounds"
    /\ UNCHANGED notChar
    /\ IF LocUpTo(data, idx.maxLoad) = <<>> \/ LocFrom(data, idx.maxLoad) = <<>>
       THEN \* np.argmin of an empty array
            /\ Raise("ValueError")
            /\ UNCHANGED <<data, maxLoad, idx, defl_cps, data_process, callArgs, peaks>>
       ELSE LET i == LowerBoundIndex(data, idx.maxLoad, maxLoad)
                f == UpperBoundIndex(data, idx.maxLoad, maxLoad)
            IN  /\ idx' = [idx EXCEPT !.i = i, !.f = f]
                /\ data_process' = SubFrame(data, LocBetween(data, i, f))
                /\ pc' = "done"
                /\ UNCHANGED <<data, maxLoad, defl_cps, callArgs, peaks, raised>>

\* test.make_positive_data() called by itself on the loaded data, before
\* preprocess_data; an empty dataset raises and the caller goes on
MaxCalls == 2

positivize_call ==
    /\ pc = "make_positive_data"
    /\ ncalls < MaxCalls
    /\ ncalls' = ncalls + 1
    /\ data' = IF IsEmpty(data) THEN data ELSE PositiveFrame(data)
    /\ UNCHANGED <<maxLoad, idx, defl_cps, data_process, x_points, x_col, variant,
                   peaks, pc, raised>>
    /\ UNCHANGED notChar

(***************************************************************************)
(* Datasets as the importers hand them over: n rows, labels 0..n+d-1 with  *)
(* the d rows the row filter dropped missing, Deflection increasing and    *)
(* the crack opening CMOD twice the deflection.                            *)
(***************************************************************************)
RECURSIVE CumSum(_, _)
CumSum(steps, k) == IF k = 0 THEN 0 ELSE CumSum(steps, k - 1) + steps[k]

LabelSeqs(n) ==
    {SortedSeq(S) : S \in {T \in SUBSET (0..(n + MaxDropped - 1)) : Cardinality(T) = n}}

Datasets(rows, steps) ==
    UNION {
        {[index |-> lab, Load |-> ld,
          Deflection |-> [k \in 1..n |-> CumSum(st, k)],
          CMOD |-> [k \in 1..n |-> 2 * CumSum(st, k)], Toughness |-> <<>>] :
            lab \in LabelSeqs(n), ld \in [1..n -> LoadValues], st \in [1..n -> steps]}
        : n \in rows}

\* Toughness_mechanical_test.preprocess_data, one method call per step
preprocess_data ==
    \/ make_positive_data
    \/ get_max_load
    \/ get_toughness
    \/ get_first_peak
    \/ range_bounds
    \/ get_defl_cps

\* either variant of preprocess_data, after any direct make_positive_data calls
specimen_calls ==
    \/ positivize_call
    \/ make_positive_data
    \/ get_max_load
    \/ resistance_bounds
    \/ get_toughness
    \/ get_first_peak
    \/ range_bounds
    \/ get_defl_cps


(***************************************************************************)
(* Claims about the characterization (specification SpecTough)             *)
(***************************************************************************)
Finished == pc \in {"done", "raised"}
PastMaxLoad == pc \in {"get_toughness", "get_first_peak", "range_bounds", "get_defl_cps", "done"}
PastFirstPeak == pc \in {"range_bounds", "get_defl_cps", "done"}

\* C1: for every non-empty dataset and grid G, preprocess_data ends with a
\* characteristic-point table of 3 + len(G) rows: rows 0, 1, 2 are the records
\* at the firstPeak, maxLoad and rangeEnd positions, row 3+k holds G[k].
C1_CpsRowsAndOrder ==
    (Finished /\ ~IsEmpty(data)) =>
        /\ pc = "done"
        /\ Len(defl_cps) = 3 + Len(x_points)
        /\ defl_cps[1] = RowAtPos(data, x_col, idx.iL + 1)
        /\ defl_cps[2] = RowAtPos(data, x_col, idx.maxLoad + 1)
        /\ defl_cps[3] = RowAtPos(data, x_col, idx.f + 1)
        /\ \A k \in 1..Len(x_points) : defl_cps[3 + k].x = RInt(x_points[k])

\* C2: after get_max_load, maxLoad is the maximum of |Load| and idx['maxLoad']
\* is the smallest position at which |Load| attains it.
C2_MaxLoadFirstIndex ==
    PastMaxLoad =>
        /\ \A k \in 1..NRows(data) : Abs(data.Load[k]) <= maxLoad
        /\ idx.maxLoad \in 0..(NRows(data) - 1)
        /\ Abs(data.Load[idx.maxLoad + 1]) = maxLoad
        /\ \A q \in 0..(idx.maxLoad - 1) : Abs(data.Load[q + 1]) < maxLoad

\* C2 witness: the maximum is attained at two positions and the peak was located
C2_Witness ==
    /\ pc = "get_toughness"
    /\ \E p, q \in 1..NRows(data) : p < q /\ data.Load[p] = maxLoad /\ data.Load[q] = maxLoad

\* C3: after get_first_peak, idx['iL'] = idx['maxLoad'] when the peak list is
\* empty or starts after the global maximum, otherwise the first peak; so with
\* no qualifying peak before the global maximum iL is the global-maximum index.
C3_FirstPeakFallback ==
    PastFirstPeak =>
        /\ (peaks = <<>> \/ peaks[1] > idx.maxLoad) => idx.iL = idx.maxLoad
        /\ (peaks # <<>> /\ peaks[1] <= idx.maxLoad) => idx.iL = peaks[1]
        /\ (\A k \in 1..Len(peaks) : peaks[k] >= idx.maxLoad) => idx.iL = idx.maxLoad

\* C3 witness: a qualifying peak exists but only after the global maximum
C3_Witness ==
    /\ pc = "range_bounds"
    /\ peaks # <<>>
    /\ peaks[1] > idx.maxLoad
    /\ idx.iL = idx.maxLoad

(***************************************************************************)
(* Text files as import_data_text sees them (test_data.py)                 *)
(*                                                                         *)
(* A file is a run-length sequence of segments [n, line]: n consecutive    *)
(* copies of a line.  A line has a kind (metadata, title, units or data)    *)
(* and three views: marker (it contains both 'running time' and            *)
(* 'displacement'), text (its characters, for strip and split) and cells   *)
(* (what pd.read_csv yields for it under the separator in use; <<>> for a  *)
(* blank line, which the parser skips).  A table is a                      *)
(* run-length sequence of [n, label, cells]: n rows labelled label,        *)
(* label+1, ... holding the same cells.                                    *)
(***************************************************************************)
TAB == "\t"
WS == "\\s+"                 \* the regular expression r'\s+'
candidate_delims == <<TAB, ",", ";", "|">>
Whitespace == {" ", TAB}

RawLinesLimit == 400         \* lines read for delimiter detection
SampleLimit == 50            \* non-blank data lines that are scored
PreviewLimit == 200          \* lines read for header detection

Min(a, b) == IF a < b THEN a ELSE b
Max(a, b) == IF a > b THEN a ELSE b

RECURSIVE NLines(_)
NLines(segs) == IF segs = <<>> THEN 0 ELSE Head(segs).n + NLines(Tail(segs))

\* lines[from:to] (Python slice, 0 <= from)
RECURSIVE Slice(_, _, _)
Slice(segs, from, to) ==
    IF segs = <<>> \/ to <= 0 THEN <<>>
    ELSE LET s == Head(segs)
             lo == Min(from, s.n)
             hi == Min(to, s.n)
         IN  (IF hi > lo THEN <<[s EXCEPT !.n = hi - lo]>> ELSE <<>>)
                 \o Slice(Tail(segs), Max(from - s.n, 0), to - s.n)

\* index of the first marker line, -1 when there is none
RECURSIVE FirstMarker(_, _)
FirstMarker(segs, offset) ==
    IF segs = <<>> THEN -1
    ELSE IF Head(segs).n > 0 /\ Head(segs).line.marker THEN offset
    ELSE FirstMarker(Tail(segs), offset + Head(segs).n)

\* str.strip(): leading and trailing whitespace removed
RECURSIVE lstrip(_)
lstrip(t) == IF t # <<>> /\ Head(t) \in Whitespace THEN lstrip(Tail(t)) ELSE t

RECURSIVE rstrip(_)
rstrip(t) ==
    IF t # <<>> /\ t[Len(t)] \in Whitespace THEN rstrip(SubSeq(t, 1, Len(t) - 1)) ELSE t

strip(t) == rstrip(lstrip(t))

\* len(s.split(cand)): one more than the occurrences of cand
split_len(t, cand) == Cardinality({k \in 1..Len(t) : t[k] = cand}) + 1

\* len(re.split(r'\s+', s)): one more than the number of whitespace runs
resplit_len(t) ==
    Cardinality({k \in 1..Len(t) :
                    t[k] \in Whitespace /\ (k = 1 \/ t[k - 1] \notin Whitespace)}) + 1

\* lines 127-143 and 149: the lines scored by the delimiter detection
raw_lines(f) == Slice(f.lines, 0, RawLinesLimit)
header_index(f) == FirstMarker(raw_lines(f), 0)
data_section(f) ==
    Slice(raw_lines(f), IF header_index(f) # -1 THEN header_index(f) + 2 ELSE 0,
          RawLinesLimit)
sample(f) ==
    Slice(SelectSeq(data_section(f), LAMBDA s : strip(s.line.text) # <<>>), 0, SampleLimit)

\* number of sampled lines that split into exactly / at least the expected count
RECURSIVE good_exact(_, _, _)
good_exact(smp, cand, expected_cols) ==
    IF smp = <<>> THEN 0
    ELSE (IF split_len(strip(Head(smp).line.text), cand) = expected_cols
          THEN Head(smp).n ELSE 0) + good_exact(Tail(smp), cand, expected_cols)

RECURSIVE good_ws_Exact(_, _)
good_ws_Exact(smp, expected_cols) ==
    IF smp = <<>> THEN 0
    ELSE (IF resplit_len(strip(Head(smp).line.text)) = expected_cols
          THEN Head(smp).n ELSE 0) + good_ws_Exact(Tail(smp), expected_cols)

RECURSIVE good_ws(_, _)
good_ws(smp, expected_cols) ==
    IF smp = <<>> THEN 0
    ELSE (IF resplit_len(strip(Head(smp).line.text)) >= expected_cols
          THEN Head(smp).n ELSE 0) + good_ws(Tail(smp), expected_cols)

\* lines 146-160: the candidate loop; scores are good/len(sample), so two scores
\* compare as their numerators; best_score = -1 before the loop
RECURSIVE best_of(_, _, _, _)
best_of(smp, expected_cols, k, best) ==
    IF k > Len(candidate_delims) THEN best
    ELSE LET g == good_exact(smp, candidate_delims[k], expected_cols)
         IN  best_of(smp, expected_cols, k + 1,
                     IF g > best.good THEN [delim |-> candidate_delims[k], good |-> g]
                     ELSE best)

\* (mutant) score >= best_score: the last of several equal candidates wins
RECURSIVE best_of_last(_, _, _, _)
best_of_last(smp, expected_cols, k, best) ==
    IF k > Len(candidate_delims) THEN best
    ELSE LET g == good_exact(smp, candidate_delims[k], expected_cols)
         IN  best_of_last(smp, expected_cols, k + 1,
                          IF g >= best.good THEN [delim |-> candidate_delims[k], good |-> g]
                          ELSE best)

best_delim_LastWins(smp, expected_cols) ==
    best_of_last(smp, expected_cols, 1, [delim |-> TAB, good |-> -1])

best_delim(smp, expected_cols) == best_of(smp, expected_cols, 1, [delim |-> TAB, good |-> -1])

\* lines 150-180: the delimiter chosen with delimiter='auto'
auto_delimiter(f, expected_cols) ==
    LET smp == sample(f)
        best == best_delim(smp, expected_cols)
    IN  IF smp = <<>> THEN TAB
        ELSE IF 2 * best.good < NLines(smp)
             THEN (IF good_ws(smp, expected_cols) >= best.good THEN WS ELSE best.delim)
             ELSE best.delim

\* lines 184-199: [next(fh) for _ in range(200)] raises StopIteration on a file
\* of fewer than 200 lines and the handler then sets preview = []
preview(f) ==
    IF NLines(f.lines) < PreviewLimit THEN <<>> ELSE Slice(f.lines, 0, PreviewLimit)
header_line(f) == FirstMarker(preview(f), 0)
auto_skiprows(f, skip) == IF header_line(f) # -1 THEN header_line(f) + 2 ELSE skip

(***************************************************************************)
(* import_data_text (test_data.py, lines 83-333)                           *)
(***************************************************************************)
NoTable == [none |-> TRUE, rows |-> <<>>]
Table(rows) == [none |-> FALSE, rows |-> rows]

\* lines[skiprows:] parsed: blank lines are skipped, every other line is a row
RECURSIVE ToTable(_, _)
ToTable(segs, label) ==
    IF segs = <<>> THEN <<>>
    ELSE IF Head(segs).line.cells = <<>> THEN ToTable(Tail(segs), label)
    ELSE <<[n |-> Head(segs).n, label |-> label, cells |-> Head(segs).line.cells]>>
             \o ToTable(Tail(segs), label + Head(segs).n)

ParsedRows(f, skip) == ToTable(Slice(f.lines, skip, NLines(f.lines)), 0)

\* a cell is "num" (parses as a float), "empty", "dirty" (text that the
\* cleaning of lines 249-256 turns into a number) or "junk" (text it does not)
HasText(rows) ==
    \E k \in 1..Len(rows) : \E c \in 1..Len(rows[k].cells) :
        rows[k].cells[c] \in {"dirty", "junk"}

MapCells(rows, Op(_)) ==
    [k \in 1..Len(rows) |-> [rows[k] EXCEPT !.cells = SeqMap(Op, rows[k].cells)]]

\* dtype=float64: empty fields become NaN
direct_cell(c) == IF c = "num" THEN "num" ELSE "nan"
\* dtype=str, cleaning, pd.to_numeric(errors='coerce')
coerce_cell(c) == IF c \in {"num", "dirty"} THEN "num" ELSE "nan"

\* the outcome of pd.read_csv(..., encoding=enc) on the file
ReadOutcome(f, enc) ==
    IF enc = "bogus" THEN "LookupError"
    ELSE IF enc \in f.undecodable THEN "UnicodeDecodeError"
    ELSE "ok"

valid_count(cells) == Cardinality({c \in 1..Len(cells) : cells[c] # "nan"})
all_nan(cells) == \A c \in 1..Len(cells) : cells[c] = "nan"
TableLen(rows) == NLines(rows)

\* (mutant) only dropna(how='all'), the minimum of valid columns is not applied
FilterRows_AllNaNOnly(rows, min_valid_cols) ==
    SelectSeq(rows, LAMBDA r : ~all_nan(r.cells))

\* lines 301-305: dropna(how='all') and the minimum of valid columns
FilterRows(rows, min_valid_cols) ==
    SelectSeq(rows, LAMBDA r : ~all_nan(r.cells) /\ valid_count(r.cells) >= min_valid_cols)

IRaise(e) ==
    /\ ipc' = "raised"
    /\ iraised' = e

\* detect_encoding, lines 69-80: what chardet names, or the default 'utf-8'
\* when chardet names nothing ("None") or the sampling raised ("error")
\* (mutant) chardet's answer is passed on as it is
detect_encoding_NoDefault(f) == f.detected

detect_encoding(f) == IF f.detected \in {"None", "error"} THEN "utf-8" ELSE f.detected

\* line 121
import_start ==
    /\ ipc = "start"
    /\ encodings_to_try' = <<detect_encoding(file), "utf-8", "latin-1", "cp1252">>
    /\ ipc' = "detect_delimiter"
    /\ UNCHANGED <<file, args, delimiter, skiprows, attempt, reads, df, iraised>>
    /\ UNCHANGED notImp

\* lines 124-180
detect_delimiter ==
    /\ ipc = "detect_delimiter"
    /\ delimiter' = IF delimiter = "auto"
                    THEN auto_delimiter(file, args.expected_cols)
                    ELSE delimiter
    /\ ipc' = "detect_header"
    /\ UNCHANGED <<file, args, skiprows, encodings_to_try, attempt, reads, df, iraised>>
    /\ UNCHANGED notImp

\* lines 183-204
detect_header ==
    /\ ipc = "detect_header"
    /\ skiprows' = IF args.auto_detect_header THEN auto_skiprows(file, skiprows) ELSE skiprows
    /\ ipc' = "read"
    /\ UNCHANGED <<file, args, delimiter, encodings_to_try, attempt, reads, df, iraised>>
    /\ UNCHANGED notImp

\* (mutant) one encoding more than the retry budget allows
Budget_OneMore(max_retries) == Min(max_retries + 2, Len(encodings_to_try))

\* len(encodings_to_try[:max_retries + 1]) for max_retries >= 0
Budget(max_retries) == Min(max_retries + 1, Len(encodings_to_try))

\* (mutant) the df-is-None check after the loop is missing
AfterLoop_NoCheck(d) == "fallback"

\* lines 272-273: where the call goes when the loop ends without a break
AfterLoop(d) == IF d.none THEN "raised" ELSE "fallback"

\* lines 211-273: one iteration of the encoding loop, or, when the loop is
\* exhausted, the df-is-None check that follows it
read_attempt ==
    /\ ipc = "read"
    /\ UNCHANGED <<file, args, delimiter, skiprows, encodings_to_try>>
    /\ UNCHANGED notImp
    /\ IF attempt >= Budget(args.max_retries)
       THEN /\ ipc' = AfterLoop(df)
            /\ iraised' = IF AfterLoop(df) = "raised" THEN "RuntimeError" ELSE iraised
            /\ UNCHANGED <<attempt, reads, df>>
       ELSE LET encoding == encodings_to_try[attempt + 1]
                outcome == ReadOutcome(file, encoding)
                rows == ParsedRows(file, skiprows)
            IN  IF outcome = "UnicodeDecodeError"
                THEN /\ reads' = Append(reads, [encoding |-> encoding, pass |-> "direct"])
                     /\ IF attempt = Len(encodings_to_try) - 1
                        THEN IRaise("RuntimeError") /\ UNCHANGED attempt
                        ELSE attempt' = attempt + 1 /\ UNCHANGED <<ipc, iraised>>
                     /\ UNCHANGED df
                ELSE IF outcome # "ok"
                THEN /\ reads' = Append(reads, [encoding |-> encoding, pass |-> "direct"])
                     /\ IRaise(outcome)
                     /\ UNCHANGED <<attempt, df>>
                ELSE IF ~HasText(rows)
                THEN /\ reads' = Append(reads, [encoding |-> encoding, pass |-> "direct"])
                     /\ df' = Table(MapCells(rows, direct_cell))
                     /\ ipc' = "fallback"
                     /\ UNCHANGED <<attempt, iraised>>
                ELSE IF args.coerce_numeric
                THEN /\ reads' = reads \o <<[encoding |-> encoding, pass |-> "direct"],
                                            [encoding |-> encoding, pass |-> "coerce"]>>
                     /\ df' = Table(MapCells(rows, coerce_cell))
                     /\ ipc' = "fallback"
                     /\ UNCHANGED <<attempt, iraised>>
                ELSE /\ reads' = Append(reads, [encoding |-> encoding, pass |-> "direct"])
                     /\ IRaise("ValueError")
                     /\ UNCHANGED <<attempt, df>>

\* line 276: (df.isna().all(axis=1)).mean() == 1.0; the mean of no rows is NaN
AllRowsNaN_EmptyToo(rows) ==
    \A k \in 1..Len(rows) : all_nan(rows[k].cells)

AllRowsNaN(rows) ==
    /\ TableLen(rows) > 0
    /\ \A k \in 1..Len(rows) : all_nan(rows[k].cells)

\* line 294: (~flex_df.isna().all(axis=1)).any()
AnyRowNotNaN(rows) == \E k \in 1..Len(rows) : rows[k].n > 0 /\ ~all_nan(rows[k].cells)

\* lines 279-295: the sep=None read with encodings_to_try[0]; an exception is
\* caught by line 297
FlexResult(f, enc) ==
    IF ReadOutcome(f, enc) # "ok" \/ f.flex.error
    THEN [error |-> TRUE, rows |-> <<>>]
    ELSE f.flex

\* lines 275-298
fallback_pass ==
    /\ ipc = "fallback"
    /\ UNCHANGED <<file, args, delimiter, skiprows, encodings_to_try, attempt, iraised>>
    /\ UNCHANGED notImp
    /\ ipc' = "filter"
    /\ IF AllRowsNaN(df.rows)
       THEN LET flex_df == FlexResult(file, encodings_to_try[1]) IN
            /\ reads' = Append(reads, [encoding |-> encodings_to_try[1], pass |-> "flex"])
            /\ df' = IF ~flex_df.error /\ AnyRowNotNaN(flex_df.rows)
                     THEN Table(flex_df.rows)
                     ELSE df
       ELSE UNCHANGED <<reads, df>>

\* lines 300-333: the row filter, then the table is returned
filter_rows ==
    /\ ipc = "filter"
    /\ df' = IF args.dropna THEN Table(FilterRows(df.rows, args.min_valid_cols)) ELSE df
    /\ ipc' = "returned"
    /\ UNCHANGED <<file, args, delimiter, skiprows, encodings_to_try, attempt, reads, iraised>>
    /\ UNCHANGED notImp

import_data_text ==
    \/ import_start
    \/ detect_delimiter
    \/ detect_header
    \/ read_attempt
    \/ fallback_pass
    \/ filter_rows

(***************************************************************************)
(* Files and arguments the import is run on                                *)
(***************************************************************************)
MaxCols == 3        \* len(variable_names) in the delimiter runs
MaxTextLen == 3     \* characters of a sampled data line
MaxMeta == 201      \* metadata lines before the header (PreviewLimit + 1)
MaxDataRows == 2    \* distinct data lines in the row-filter runs
MaxRetries == 3     \* max_retries

Alphabet == {TAB, ",", ";", "|", " ", "1"}
Texts == UNION {[1..k -> Alphabet] : k \in 0..MaxTextLen}
SecondTexts == {<<>>, <<"1", ",", "1">>, <<"1", TAB, "1">>, <<"1", " ", "1">>}
\* a line whose whitespace split yields a column more than a two-column import expects
NoisyText == <<"1", " ", "1", " ", "1">>
FillerCounts == {0, 2, 500}
SkipChoices == {0, 15, 16}
\* rows of two cells
CellRows == {<<"num", "num">>, <<"num", "empty">>, <<"empty", "empty">>,
             <<"junk", "junk">>, <<"dirty", "num">>, <<"junk", "num">>}
\* what the sep=None read may return after its own cleaning
FlexTables == {[error |-> TRUE, rows |-> <<>>],
               [error |-> FALSE, rows |-> <<[n |-> 1, label |-> 0, cells |-> <<"nan", "nan">>]>>],
               [error |-> FALSE, rows |-> <<[n |-> 1, label |-> 0, cells |-> <<"nan", "nan">>],
                                          [n |-> 1, label |-> 1, cells |-> <<"num", "nan">>]>>]}
\* what chardet may answer: a codec name, a name Python does not know
\* ("bogus"), nothing ("None"), or an exception ("error")
DetectedEncodings == {"utf-8", "latin-1", "cp1252", "utf-16", "bogus", "None", "error"}
\* latin-1 decodes every byte string
MayFailDecoding == {"utf-8", "cp1252", "utf-16"}

Cells(ncols, c) == [k \in 1..ncols |-> c]

\* a tab-separated line of ncols fields
RECURSIVE TabText(_)
TabText(ncols) == IF ncols <= 1 THEN <<"1">> ELSE TabText(ncols - 1) \o <<TAB, "1">>

Line(kind, text, cells) ==
    [kind |-> kind, marker |-> FALSE, text |-> text,
     cells |-> IF strip(text) = <<>> THEN <<>> ELSE cells]
\* the title line 'Running Time ... Displacement ... Load' and the units line
MarkerLine(ncols) == [kind |-> "title", marker |-> TRUE, text |-> TabText(ncols), cells |-> Cells(ncols, "junk")]
UnitsLine(ncols) == [kind |-> "units", marker |-> FALSE, text |-> TabText(ncols), cells |-> Cells(ncols, "junk")]

Segs(n, line) == IF n = 0 THEN <<>> ELSE <<[n |-> n, line |-> line]>>

TextLines(nmeta, metaCells, header, ncols, dataSegs) ==
    Segs(nmeta, Line("meta", TabText(ncols), metaCells))
        \o (IF header THEN Segs(1, MarkerLine(ncols)) \o Segs(1, UnitsLine(ncols)) ELSE <<>>)
        \o dataSegs

\* a decodable file; chardet names nothing on a file of no bytes
PlainFile(lines) ==
    [lines |-> lines, detected |-> IF lines = <<>> THEN "None" ELSE "utf-8",
     undecodable |-> {}, flex |-> [error |-> TRUE, rows |-> <<>>]]

DefaultArgs ==
    [delimiter |-> "auto", expected_cols |-> 2, skiprows |-> 15, dropna |-> TRUE,
     max_retries |-> 2, coerce_numeric |-> TRUE, min_valid_cols |-> 2,
     auto_detect_header |-> TRUE]

(***************************************************************************)
(* File and workbook handles of the readers of test_data.py                *)
(***************************************************************************)
Readers == {"detect_encoding", "import_data_text", "import_data_excel", "get_data_excel"}
\* what may fail in a call: opening the file or workbook, scanning it once it
\* is open (reading bytes or lines, picking the sheet, iterating rows, reading
\* the cell), and the pandas parse that follows
FaultPoints == {"open", "scan", "parse"}

HEnd(e) ==
    /\ hpc' = IF e = "none" THEN "returned" ELSE "raised"
    /\ hraised' = e

\* detect_encoding, lines 69-80: 'with file_path.open("rb") as f' inside a try
\* whose handler returns the default
detect_encoding_sample ==
    /\ hcall.fn = "detect_encoding"
    /\ hpc \in {"start", "sampling"}
    /\ IF hpc = "start"
       THEN IF "open" \in hcall.faults
            THEN HEnd("none") /\ UNCHANGED handles
            ELSE /\ handles' = handles \cup {"file"}
                 /\ hpc' = "sampling"
                 /\ UNCHANGED hraised
       ELSE \* f.read; the with block closes f whether or not it raised
            /\ handles' = handles \ {"file"}
            /\ HEnd("none")
    /\ UNCHANGED hcall
    /\ UNCHANGED notH

\* import_data_text, lines 124-135 and 184-191: the two scans, each a
\* 'with file_path.open("r", errors="ignore") as fh' inside a try
text_scan ==
    /\ hcall.fn = "import_data_text"
    /\ hpc \in {"start", "delimiter_lines", "header", "header_lines"}
    /\ IF hpc \in {"start", "header"}
       THEN IF "open" \in hcall.faults
            THEN /\ hpc' = IF hpc = "start" /\ hcall.auto_detect_header
                           THEN "header" ELSE "read_csv"
                 /\ UNCHANGED handles
            ELSE /\ handles' = handles \cup {"fh"}
                 /\ hpc' = IF hpc = "start" THEN "delimiter_lines" ELSE "header_lines"
       ELSE \* next(fh) until the bound, StopIteration or another exception
            /\ handles' = handles \ {"fh"}
            /\ hpc' = IF hpc = "delimiter_lines" /\ hcall.auto_detect_header
                      THEN "header" ELSE "read_csv"
    /\ UNCHANGED <<hcall, hraised>>
    /\ UNCHANGED notH

\* import_data_text, lines 211-333: pd.read_csv is given the path and opens and
\* closes the file itself
text_read_csv ==
    /\ hcall.fn = "import_data_text"
    /\ hpc = "read_csv"
    /\ HEnd(IF "parse" \in hcall.faults THEN "RuntimeError" ELSE "none")
    /\ UNCHANGED <<hcall, handles>>
    /\ UNCHANGED notH

\* import_data_excel, lines 374-399: load_workbook, the sheet lookup and the
\* row scan share one try; wb.close() is its last statement
excel_header_scan ==
    /\ hcall.fn = "import_data_excel"
    /\ hpc \in {"start", "scan"}
    /\ IF hpc = "start"
       THEN IF ~hcall.auto_detect_header \/ "open" \in hcall.faults
            THEN hpc' = "read_excel" /\ UNCHANGED handles
            ELSE handles' = handles \cup {"wb"} /\ hpc' = "scan"
       ELSE /\ handles' = IF "scan" \in hcall.faults THEN handles ELSE handles \ {"wb"}
            /\ hpc' = "read_excel"
    /\ UNCHANGED <<hcall, hraised>>
    /\ UNCHANGED notH

\* import_data_excel, lines 401-429: pd.read_excel is given the path
excel_read_excel ==
    /\ hcall.fn = "import_data_excel"
    /\ hpc = "read_excel"
    /\ HEnd(IF "parse" \in hcall.faults THEN "ValueError" ELSE "none")
    /\ UNCHANGED <<hcall, handles>>
    /\ UNCHANGED notH

\* get_data_excel, lines 460-482: load_workbook outside the try, the lookup
\* inside it, wb.close() in its finally
cell_read ==
    /\ hcall.fn = "get_data_excel"
    /\ hpc \in {"start", "lookup"}
    /\ IF hpc = "start"
       THEN IF "open" \in hcall.faults
            THEN HEnd("OSError") /\ UNCHANGED handles
            ELSE /\ handles' = handles \cup {"wb"}
                 /\ hpc' = "lookup"
                 /\ UNCHANGED hraised
       ELSE /\ handles' = handles \ {"wb"}
            /\ HEnd(IF "scan" \in hcall.faults THEN "ValueError" ELSE "none")
    /\ UNCHANGED hcall
    /\ UNCHANGED notH

reader_calls ==
    \/ detect_encoding_sample
    \/ text_scan
    \/ text_read_csv
    \/ excel_header_scan
    \/ excel_read_excel
    \/ cell_read

HandlesIdle ==
    /\ hcall = [fn |-> "none", auto_detect_header |-> FALSE, faults |-> {}]
    /\ hpc = "idle"
    /\ handles = {}
    /\ hraised = "none"

(***************************************************************************)
(* Report classes with a standards map (test_ledi.py)                      *)
(***************************************************************************)
MaxSamples == 2     \* len(samples_id)
MaxTests == 3       \* len(self.tests) over repeated add_tests calls

ReportClasses ==
    {"Panel_toughness_test_report", "Panel_Beam_residual_strength_test_report",
     "Beam_residual_strength_test_report"}

\* the dictionary literal of each class's set_defl_points
standards_map(cls) ==
    IF cls = "Panel_toughness_test_report"
    THEN [s \in {"ASTMC1550", "EFNARC1996", "EFNARC1999", "EN14488-5"} |->
            IF s = "ASTMC1550"
            THEN SeqMap(RInt, <<5, 10, 20, 30, 40, 45>>)
            ELSE SeqMap(RInt, <<5, 10, 15, 20, 25, 30>>)]
    ELSE IF cls = "Panel_Beam_residual_strength_test_report"
    THEN [s \in {"EN14651", "EN14488"} |->
            IF s = "EN14651"
            THEN <<Rat(1, 2), Rat(3, 2), Rat(5, 2), Rat(7, 2), RInt(4)>>
            ELSE <<Rat(1, 2), Rat(3, 2), Rat(5, 2), Rat(7, 2), RInt(4), RInt(5)>>]
    ELSE [s \in {"ASTMC1609"} |-> <<Rat(3, 4), RInt(3)>>]

\* a lookup that answers an unknown standard with the first grid of the map
map_get_FirstGrid(cls, standard) ==
    IF standard \in DOMAIN standards_map(cls)
    THEN standards_map(cls)[standard]
    ELSE standards_map(cls)[CHOOSE s \in DOMAIN standards_map(cls) : TRUE]

\* standards_map.get(self.standard_test, [])
map_get(cls, standard) ==
    IF standard \in DOMAIN standards_map(cls) THEN standards_map(cls)[standard] ELSE <<>>

\* standard names a report may be constructed with (None is the default)
StandardNames ==
    UNION {DOMAIN standards_map(c) : c \in ReportClasses}
        \cup {"None", "astmc1550", "EN 14651", "ASTM C1609"}

\* what importing and preprocessing one specimen can end with
SpecimenOutcomes == {"ok", "FileNotFoundError", "RuntimeError", "ValueError", "KeyError"}

RRaise(e) == rpc' = "raised" /\ rraised' = e

\* report.set_defl_points() called directly
set_defl_points ==
    /\ rpc \in {"constructed", "returned", "raised"}
    /\ report' = [report EXCEPT !.defl_points = map_get(report.cls, report.standard_test)]
    /\ rcall' = [name |-> "set_defl_points", k |-> 0]
    /\ imported' = <<>>
    /\ IF map_get(report.cls, report.standard_test) = <<>>
       THEN RRaise("ValueError")
       ELSE rpc' = "returned" /\ rraised' = "none"
    /\ UNCHANGED notRep

\* report.add_tests() up to its loop: the call of set_defl_points
add_tests_begin ==
    /\ rpc \in {"constructed", "returned", "raised"}
    /\ Len(report.tests) + Len(report.samples_id) <= MaxTests
    /\ report' = [report EXCEPT !.defl_points = map_get(report.cls, report.standard_test)]
    /\ rcall' = [name |-> "add_tests", k |-> 1]
    /\ imported' = <<>>
    /\ IF map_get(report.cls, report.standard_test) = <<>>
       THEN RRaise("ValueError")
       ELSE /\ rpc' = IF report.samples_id = <<>> THEN "returned" ELSE "add_tests"
            /\ rraised' = "none"
    /\ UNCHANGED notRep

\* one iteration of the loop of add_tests: read the specimen file, preprocess
\* with self.defl_points, append the test
add_tests_sample ==
    /\ rpc = "add_tests"
    /\ imported' = Append(imported, report.samples_id[rcall.k])
    /\ \E outcome \in SpecimenOutcomes :
          IF outcome = "ok"
          THEN /\ report' = [report EXCEPT !.tests = Append(@, report.samples_id[rcall.k])]
               /\ rcall' = [rcall EXCEPT !.k = @ + 1]
               /\ rpc' = IF rcall.k = Len(report.samples_id) THEN "returned" ELSE "add_tests"
               /\ UNCHANGED rraised
          ELSE /\ RRaise(outcome)
               /\ UNCHANGED <<report, rcall>>
    /\ UNCHANGED notRep

report_calls ==
    \/ set_defl_points
    \/ add_tests_begin
    \/ add_tests_sample

SampleLists == UNION {[1..n -> 1..MaxSamples] : n \in 0..MaxSamples}

\* __init__: tests empty, defl_points = np.array([])
Constructed(cls, standard, samples) ==
    [cls |-> cls, standard_test |-> standard, samples_id |-> samples,
     defl_points |-> <<>>, tests |-> <<>>]

ReportIdle ==
    /\ report = Constructed("Panel_toughness_test_report", "None", <<>>)
    /\ imported = <<>>
    /\ rcall = [name |-> "none", k |-> 0]
    /\ rpc = "constructed"
    /\ rraised = "none"

(***************************************************************************)
(* import_data_excel (test_data.py, lines 336-429)                         *)
(*                                                                         *)
(* A worksheet is the sequence of its rows, row r of the sheet at index r. *)
(* A row is blank (every cell None), a text row holding `matches` of the   *)
(* expected column names among its cells, or a numeric row, complete or    *)
(* with an empty cell.  The used range ends at the last non-blank row.     *)
(***************************************************************************)
MaxNames == 4       \* len(variable_names)
MaxSheetRows == 3   \* rows of the worksheet

RowKinds(n) ==
    {[kind |-> "blank", matches |-> 0, nan |-> TRUE]}
        \cup {[kind |-> "names", matches |-> m, nan |-> FALSE] : m \in 0..n}
        \cup {[kind |-> "num", matches |-> 0, nan |-> b] : b \in BOOLEAN}

Sheets(n) ==
    UNION {{sh \in [1..k -> RowKinds(n)] : k > 0 => sh[k].kind # "blank"} : k \in 0..MaxSheetRows}

XRaise(e) ==
    /\ xpc' = "raised"
    /\ xraised' = e

\* max(2, int(0.6 * len(target)))
header_threshold(n) == Max(2, (6 * n) \div 10)

\* the first worksheet row r <= header_search_rows with cells and enough
\* expected names among them; 0 when the scan finds none
scan_header(sh, n, limit) ==
    LET hits == {r \in 1..Min(limit, Len(sh)) :
                    sh[r].kind # "blank" /\ sh[r].matches >= header_threshold(n)}
    IN  IF hits = {} THEN 0 ELSE CHOOSE r \in hits : \A q \in hits : r <= q

excel_validate ==
    /\ xpc = "start"
    /\ IF xargs.skiprows < 0 THEN XRaise("ValueError")
       ELSE IF xargs.nnames = 0 THEN XRaise("ValueError")
       ELSE /\ xpc' = "detect_header"
            /\ UNCHANGED xraised
    /\ UNCHANGED <<sheet, xargs, xskiprows, header_candidate, xdf>>
    /\ UNCHANGED notXl

excel_detect_header ==
    /\ xpc = "detect_header"
    /\ LET r == IF xargs.auto_detect_header
                THEN scan_header(sheet, xargs.nnames, xargs.header_search_rows)
                ELSE 0
       IN  /\ header_candidate' = r
           /\ xskiprows' = IF r # 0 THEN r ELSE xskiprows
    /\ xpc' = "read_excel"
    /\ UNCHANGED <<sheet, xargs, xdf, xraised>>
    /\ UNCHANGED notXl

\* pd.read_excel(names=..., skiprows=skip) with the default header=0: the first
\* row left after the skipped ones is consumed as the header row and replaced
\* by names; the rows after it are the data, labelled from 0
read_excel(sh, skip) ==
    [k \in 1..Max(0, Len(sh) - skip - 1) |->
        [label |-> k - 1, src |-> skip + 1 + k, nan |-> sh[skip + 1 + k].nan]]

\* a text cell in the data rows cannot be converted to dtype float64
HasTextRow(sh, skip) == \E r \in (skip + 2)..Len(sh) : sh[r].kind = "names"

excel_read ==
    /\ xpc = "read_excel"
    /\ IF HasTextRow(sheet, xskiprows)
       THEN /\ XRaise("ValueError")
            /\ UNCHANGED xdf
       ELSE /\ xdf' = read_excel(sheet, xskiprows)
            /\ xpc' = "dropna"
            /\ UNCHANGED xraised
    /\ UNCHANGED <<sheet, xargs, xskiprows, header_candidate>>
    /\ UNCHANGED notXl

excel_dropna ==
    /\ xpc = "dropna"
    /\ xdf' = IF xargs.dropna THEN SelectSeq(xdf, LAMBDA row : ~row.nan) ELSE xdf
    /\ xpc' = "returned"
    /\ UNCHANGED <<sheet, xargs, xskiprows, header_candidate, xraised>>
    /\ UNCHANGED notXl

import_data_excel ==
    \/ excel_validate
    \/ excel_detect_header
    \/ excel_read
    \/ excel_dropna

ExcelArgs ==
    [nnames : 0..MaxNames, skiprows : {-1, 0, 1, 49}, auto_detect_header : BOOLEAN,
     header_search_rows : {1, 100}, dropna : BOOLEAN]

ExcelIdle ==
    /\ sheet = <<>>
    /\ xargs = [nnames |-> 0, skiprows |-> 49, auto_detect_header |-> TRUE,
                header_search_rows |-> 100, dropna |-> TRUE]
    /\ xskiprows = 49
    /\ header_candidate = 0
    /\ xdf = <<>>
    /\ xpc = "idle"
    /\ xraised = "none"

(***************************************************************************)
(* make_report_file: the PDF assembly of a report (test_ledi.py) with the  *)
(* collaborators of edit_pdfs.py.  The call is followed from its first PDF *)
(* step; the environment says which files exist and whether the external   *)
(* collaborators (Excel through COM, the PDF library, matplotlib) work.    *)
(***************************************************************************)
PdfReportClasses == {"Generate_test_report", "Tapa_buzon_flexion_test_report"}

num_1plot_pag == 4

\* the pag_i and pag_f arguments make_report_file passes to convert_excel_to_pdf
pag_i(cls) == IF cls = "Generate_test_report" THEN 0 ELSE 1

pag_f(cls) == IF cls = "Generate_test_report" THEN 0 ELSE num_1plot_pag - 1

Environments ==
    [excel_exists : BOOLEAN, formato_exists : BOOLEAN, com_ok : BOOLEAN,
     pdf_ok : BOOLEAN, plot_ok : BOOLEAN]

GEnd(e) ==
    /\ gpc' = "raised"
    /\ graised' = e

GStep(name, next) ==
    /\ stages' = Append(stages, name)
    /\ gpc' = next
    /\ UNCHANGED graised

\* the exception convert_excel_to_pdf ends with, "none" when it converts
convert_outcome(pi, pf, env) ==
    IF pi < 1 THEN "ValueError"
    ELSE IF pf < 1 THEN "ValueError"
    ELSE IF pi > pf THEN "ValueError"
    ELSE IF ~env.excel_exists THEN "FileNotFoundError"
    ELSE IF ~env.com_ok THEN "RuntimeError"
    ELSE "none"

convert_excel_to_pdf ==
    /\ gpc = "convert_excel_to_pdf"
    /\ UNCHANGED notGen
    /\ UNCHANGED <<report_cls, environ>>
    /\ LET e == convert_outcome(pag_i(report_cls), pag_f(report_cls), environ)
       IN  IF e = "none"
           THEN /\ pdfs' = pdfs \cup {"report_file"}
                /\ GStep("convert_excel_to_pdf",
                         IF report_cls = "Generate_test_report"
                         THEN "normalize_pdf_orientation" ELSE "make_plot_report")
           ELSE /\ pdfs' = IF e = "RuntimeError" THEN pdfs \ {"report_file"} ELSE pdfs
                /\ GEnd(e)
                /\ UNCHANGED stages

make_plot_report ==
    /\ gpc = "make_plot_report"
    /\ UNCHANGED notGen
    /\ UNCHANGED <<report_cls, environ>>
    /\ IF environ.plot_ok
       THEN /\ pdfs' = pdfs \cup {"plots_file"}
            /\ GStep("make_plot_report", "merge_pdfs")
       ELSE /\ GEnd("Exception")
            /\ UNCHANGED <<pdfs, stages>>

merge_pdfs ==
    /\ gpc = "merge_pdfs"
    /\ UNCHANGED notGen
    /\ UNCHANGED <<report_cls, environ, pdfs>>
    /\ LET processed_files == IF environ.pdf_ok THEN Cardinality(pdfs) ELSE 0
       IN  IF processed_files = 0
           THEN /\ GEnd("RuntimeError")
                /\ UNCHANGED stages
           ELSE GStep("merge_pdfs", "normalize_pdf_orientation")

normalize_pdf_orientation ==
    /\ gpc = "normalize_pdf_orientation"
    /\ UNCHANGED notGen
    /\ UNCHANGED <<report_cls, environ, pdfs>>
    /\ IF "report_file" \notin pdfs
       THEN /\ GEnd("FileNotFoundError")
            /\ UNCHANGED stages
       ELSE IF ~environ.pdf_ok
       THEN /\ GEnd("RuntimeError")
            /\ UNCHANGED stages
       ELSE GStep("normalize_pdf_orientation", "apply_header_footer_pdf")

apply_header_footer_pdf ==
    /\ gpc = "apply_header_footer_pdf"
    /\ UNCHANGED notGen
    /\ UNCHANGED <<report_cls, environ, pdfs>>
    /\ IF ~("report_file" \in pdfs /\ environ.formato_exists)
       THEN /\ GEnd("FileNotFoundError")
            /\ UNCHANGED stages
       ELSE IF ~environ.pdf_ok
       THEN /\ GEnd("RuntimeError")
            /\ UNCHANGED stages
       ELSE GStep("apply_header_footer_pdf", "returned")

make_report_file ==
    \/ convert_excel_to_pdf
    \/ make_plot_report
    \/ merge_pdfs
    \/ normalize_pdf_orientation
    \/ apply_header_footer_pdf

GenerateIdle ==
    /\ report_cls = "none"
    /\ environ = [excel_exists |-> FALSE, formato_exists |-> FALSE, com_ok |-> FALSE,
                  pdf_ok |-> FALSE, plot_ok |-> FALSE]
    /\ pdfs = {}
    /\ stages = <<>>
    /\ gpc = "idle"
    /\ graised = "none"

(***************************************************************************)
(* Tapa_buzon_flexion_test (test_ledi.py): a Resistance specimen with a    *)
(* compliance threshold.  Its methods run between, never inside, calls of  *)
(* preprocess_data.                                                        *)
(***************************************************************************)
Umbrales == {0, 2, 120}

BetweenCalls == pc \in {"make_positive_data", "done", "raised"}

set_umbral ==
    /\ BetweenCalls
    /\ \E valor_kN \in Umbrales :
          /\ valor_kN # umbral_kN
          /\ umbral_kN' = valor_kN
    /\ tcall' = "set_umbral"
    /\ tret' = "None"
    /\ UNCHANGED resultado
    /\ UNCHANGED notTapa

Verdict(load, umbral) == IF load >= umbral THEN "Cumple" ELSE "No cumple"

get_resultado ==
    /\ BetweenCalls
    /\ resultado' = Verdict(maxLoad, umbral_kN)
    /\ tcall' = "get_resultado"
    /\ tret' = resultado'
    /\ UNCHANGED umbral_kN
    /\ UNCHANGED notTapa

get_resumen ==
    /\ BetweenCalls
    /\ resultado' = IF resultado # "" THEN resultado ELSE Verdict(maxLoad, umbral_kN)
    /\ tcall' = "get_resumen"
    /\ tret' = [maxLoad_kN |-> maxLoad, umbral_kN |-> umbral_kN,
                resultado |-> resultado']
    /\ UNCHANGED umbral_kN
    /\ UNCHANGED notTapa

tapa_calls ==
    \/ make_positive_data
    \/ get_max_load
    \/ resistance_bounds
    \/ set_umbral
    \/ get_resultado
    \/ get_resumen

TapaIdle ==
    /\ umbral_kN = 120
    /\ resultado = ""
    /\ tcall = "none"
    /\ tret = "None"

\* the test object is not used while a file is imported, and conversely
CharIdle ==
    /\ data = EmptyFrame
    /\ x_points = <<>>
    /\ x_col = "Deflection"
    /\ variant = "Toughness"
    /\ ncalls = 0
    /\ maxLoad = 0
    /\ idx = idx0
    /\ defl_cps = <<>>
    /\ data_process = EmptyFrame
    /\ peaks = <<>>
    /\ pc = "idle"
    /\ raised = "none"

ImportIdle ==
    /\ file = PlainFile(<<>>)
    /\ args = DefaultArgs
    /\ delimiter = "auto"
    /\ skiprows = 0
    /\ encodings_to_try = <<>>
    /\ attempt = 0
    /\ reads = <<>>
    /\ df = NoTable
    /\ ipc = "idle"
    /\ iraised = "none"

\* the call starts: locals bound to the arguments
CallStart ==
    /\ delimiter = args.delimiter
    /\ skiprows = args.skiprows
    /\ encodings_to_try = <<>>
    /\ attempt = 0
    /\ reads = <<>>
    /\ df = NoTable
    /\ ipc = "start"
    /\ iraised = "none"
    /\ CharIdle
    /\ ReportIdle
    /\ HandlesIdle
    /\ ExcelIdle
    /\ GenerateIdle
    /\ TapaIdle

\* delimiter detection: free text in the sampled lines
InitDelim ==
    /\ \E ncols \in 1..MaxCols, header \in BOOLEAN, t1 \in Texts \cup {NoisyText}, n1 \in 1..2,
          t2 \in SecondTexts :
          /\ args = [DefaultArgs EXCEPT !.expected_cols = ncols, !.skiprows = 0]
          /\ file = PlainFile(TextLines(1, Cells(ncols, "junk"), header, ncols,
                                        Segs(n1, Line("data", t1, Cells(ncols, "num")))
                                            \o Segs(1, Line("data", t2, Cells(ncols, "num")))))
    /\ CallStart

\* header detection: files shorter and longer than the preview
InitHeader ==
    /\ \E nmeta \in 0..MaxMeta, header \in BOOLEAN, ndata \in FillerCounts,
          skip \in SkipChoices, adh \in BOOLEAN :
          /\ args = [DefaultArgs EXCEPT !.expected_cols = 3, !.skiprows = skip,
                                        !.auto_detect_header = adh]
          /\ file = PlainFile(TextLines(nmeta, Cells(3, "junk"), header, 3,
                                        Segs(ndata, Line("data", TabText(3), Cells(3, "num")))))
    /\ CallStart

RowSeqs == UNION {[1..k -> CellRows] : k \in 0..MaxDataRows}

\* row filter and fallback: free cells in metadata and data lines
InitRows ==
    /\ \E nmeta \in 0..1, mc \in {<<"junk", "junk">>, <<"dirty", "num">>}, header \in BOOLEAN,
          rs \in RowSeqs, skip \in 0..1, dn \in BOOLEAN, cn \in BOOLEAN,
          mv \in 0..2, fx \in FlexTables :
          /\ args = [DefaultArgs EXCEPT !.skiprows = skip, !.dropna = dn,
                                        !.coerce_numeric = cn, !.min_valid_cols = mv]
          /\ file = [PlainFile(TextLines(nmeta, mc, header, 2,
                                 [k \in 1..Len(rs) |-> [n |-> 1, line |-> Line("data", TabText(2), rs[k])]]))
                       EXCEPT !.flex = fx]
    /\ CallStart

\* encoding loop: free detected encoding, decodability and retry budget
InitEnc ==
    /\ \E det \in DetectedEncodings, und \in SUBSET MayFailDecoding, mr \in 0..MaxRetries,
          row \in {<<"num", "num">>, <<"empty", "empty">>, <<"junk", "junk">>},
          fx \in FlexTables :
          /\ args = [DefaultArgs EXCEPT !.skiprows = 0, !.max_retries = mr]
          /\ file = [PlainFile(Segs(2, Line("data", TabText(2), row)))
                       EXCEPT !.detected = det, !.undecodable = und, !.flex = fx]
    /\ CallStart

InitImport == InitDelim \/ InitHeader \/ InitRows \/ InitEnc

SpecImport == InitImport /\ [][import_data_text]_vars

InitTough ==
    /\ data \in Datasets(0..MaxRows, ToughSteps)
    /\ x_points \in Grids
    /\ x_col = "Deflection"
    /\ variant = "Toughness"
    /\ ncalls = 0
    /\ maxLoad = 0
    /\ idx = idx0
    /\ defl_cps = <<>>
    /\ data_process = EmptyFrame
    /\ peaks = <<>>
    /\ pc = "make_positive_data"
    /\ raised = "none"
    /\ ImportIdle
    /\ ReportIdle
    /\ HandlesIdle
    /\ ExcelIdle
    /\ GenerateIdle
    /\ TapaIdle

SpecTough == InitTough /\ [][preprocess_data]_vars

\* Specimens of either variant with short curves: labels 0..n-1, channel values
\* of either sign and in any order, abscissa column and grid as passed
MaxCurveRows == 3
CurveLoads == {-1, 0, 2}
CurveDeflections == {-1, 0, 2}
CurveCMODs == {1, 2}
CurveGrids == {<<>>, <<0, 1, 3>>}

Curves ==
    UNION {
        {[index |-> [k \in 1..n |-> k - 1], Load |-> ld, Deflection |-> df0, CMOD |-> cm,
          Toughness |-> <<>>] :
            ld \in [1..n -> CurveLoads], df0 \in [1..n -> CurveDeflections],
            cm \in [1..n -> CurveCMODs]}
        : n \in 0..MaxCurveRows}

InitSpecimen ==
    /\ data \in Curves
    /\ \/ variant = "Toughness" /\ x_col \in {"Deflection", "CMOD"} /\ x_points \in CurveGrids
       \/ variant = "Resistance" /\ x_col = "Deflection" /\ x_points = <<>>
    /\ ncalls = 0
    /\ maxLoad = 0
    /\ idx = idx0
    /\ defl_cps = <<>>
    /\ data_process = EmptyFrame
    /\ peaks = <<>>
    /\ pc = "make_positive_data"
    /\ raised = "none"
    /\ ImportIdle
    /\ ReportIdle
    /\ HandlesIdle
    /\ ExcelIdle
    /\ GenerateIdle
    /\ TapaIdle

SpecSpecimen == InitSpecimen /\ [][specimen_calls]_vars

InitReport ==
    /\ \E cls \in ReportClasses, standard \in StandardNames, samples \in SampleLists :
          report = Constructed(cls, standard, samples)
    /\ imported = <<>>
    /\ rcall = [name |-> "none", k |-> 0]
    /\ rpc = "constructed"
    /\ rraised = "none"
    /\ CharIdle
    /\ ImportIdle
    /\ HandlesIdle
    /\ ExcelIdle
    /\ GenerateIdle
    /\ TapaIdle

SpecReport == InitReport /\ [][report_calls]_vars

InitGenerate ==
    /\ report_cls \in PdfReportClasses
    /\ environ \in Environments
    /\ pdfs \in SUBSET {"report_file", "plots_file"}
    /\ stages = <<>>
    /\ gpc = "convert_excel_to_pdf"
    /\ graised = "none"
    /\ CharIdle
    /\ ImportIdle
    /\ ReportIdle
    /\ HandlesIdle
    /\ ExcelIdle
    /\ TapaIdle

SpecGenerate == InitGenerate /\ [][make_report_file]_vars

InitTapa ==
    /\ data \in Curves
    /\ variant = "Resistance"
    /\ x_col = "Deflection"
    /\ x_points = <<>>
    /\ ncalls = 0
    /\ maxLoad = 0
    /\ idx = idx0
    /\ defl_cps = <<>>
    /\ data_process = EmptyFrame
    /\ peaks = <<>>
    /\ pc = "make_positive_data"
    /\ raised = "none"
    /\ umbral_kN \in Umbrales
    /\ resultado = ""
    /\ tcall = "none"
    /\ tret = "None"
    /\ ImportIdle
    /\ ReportIdle
    /\ HandlesIdle
    /\ ExcelIdle
    /\ GenerateIdle

SpecTapa == InitTapa /\ [][tapa_calls]_vars

\* Resistance_mechanical_test.preprocess_data, one statement group per step
resistance_preprocess_data ==
    \/ make_positive_data
    \/ get_max_load
    \/ resistance_bounds

\* a Resistance specimen holding a table as the importers return it
InitResistance ==
    /\ data \in Datasets(0..MaxRows, ToughSteps)
    /\ variant = "Resistance"
    /\ x_col = "Deflection"
    /\ x_points = <<>>
    /\ ncalls = 0
    /\ maxLoad = 0
    /\ idx = idx0
    /\ defl_cps = <<>>
    /\ data_process = EmptyFrame
    /\ peaks = <<>>
    /\ pc = "make_positive_data"
    /\ raised = "none"
    /\ ImportIdle
    /\ ReportIdle
    /\ HandlesIdle
    /\ ExcelIdle
    /\ GenerateIdle
    /\ TapaIdle

SpecResistance == InitResistance /\ [][resistance_preprocess_data]_vars

InitExcel ==
    /\ xargs \in ExcelArgs
    /\ sheet \in Sheets(xargs.nnames)
    /\ xskiprows = xargs.skiprows
    /\ header_candidate = 0
    /\ xdf = <<>>
    /\ xpc = "start"
    /\ xraised = "none"
    /\ CharIdle
    /\ ImportIdle
    /\ ReportIdle
    /\ HandlesIdle
    /\ GenerateIdle
    /\ TapaIdle

SpecExcel == InitExcel /\ [][import_data_excel]_vars

InitReaders ==
    /\ \E fn \in Readers, adh \in BOOLEAN, faults \in SUBSET FaultPoints :
          hcall = [fn |-> fn, auto_detect_header |-> adh, faults |-> faults]
    /\ hpc = "start"
    /\ handles = {}
    /\ hraised = "none"
    /\ CharIdle
    /\ ImportIdle
    /\ ReportIdle
    /\ GenerateIdle
    /\ TapaIdle
    /\ ExcelIdle

SpecReaders == InitReaders /\ [][reader_calls]_vars

(***************************************************************************)
(* Claims about import_data_text (specification SpecImport)                *)
(***************************************************************************)
PastDelimiter == ipc \in {"detect_header", "read", "fallback", "filter", "returned", "raised"}
PastHeader == ipc \in {"read", "fallback", "filter", "returned", "raised"}
ImportFinished == ipc \in {"returned", "raised"}

\* every line of the sample smp splits by d into exactly the expected number of columns
AllSplit(smp, d) ==
    \A k \in 1..Len(smp) : split_len(strip(smp[k].line.text), d) = args.expected_cols

Candidates == {candidate_delims[k] : k \in 1..Len(candidate_delims)}
DeclaredBefore(d) ==
    {candidate_delims[j] : j \in 1..((CHOOSE k \in 1..Len(candidate_delims) :
                                          candidate_delims[k] = d) - 1)}

\* C4 as stated: with delimiter='auto', a candidate d that splits every sampled
\* line into exactly the expected number of columns is the delimiter selected,
\* whatever the column count and the other characters in the fields.
C4_RecoversAnyDelimiter ==
    (PastDelimiter /\ args.delimiter = "auto") =>
        LET smp == sample(file) IN
        smp # <<>> => \A d \in Candidates : AllSplit(smp, d) => delimiter = d

\* C4 amended: such a d is selected provided no candidate declared before it
\* (order tab, comma, semicolon, pipe) also splits every sampled line into
\* exactly the expected number of columns; the earliest such candidate wins.
C4_RecoversEarliestDelimiter ==
    (PastDelimiter /\ args.delimiter = "auto") =>
        LET smp == sample(file) IN
        smp # <<>> =>
            \A d \in Candidates :
                (AllSplit(smp, d) /\ \A e \in DeclaredBefore(d) : ~AllSplit(smp, e))
                    => delimiter = d

\* C4 witness: semicolon recovered from lines that also hold another candidate
C4_Witness ==
    /\ PastDelimiter
    /\ args.delimiter = "auto"
    /\ delimiter = ";"
    /\ LET smp == sample(file) IN
       /\ smp # <<>>
       /\ AllSplit(smp, ";")
       /\ \E k \in 1..Len(smp) :
             \E c \in 1..Len(smp[k].line.text) : smp[k].line.text[c] \in {TAB, ",", "|"}

\* C5: with auto_detect_header, a header marker line at index h (inside the
\* scanned range) makes the parse skip h + 2 lines whatever skiprows was passed
\* and however many lines the file has; with no marker line skiprows is kept.
C5_HeaderSetsSkiprows ==
    (PastHeader /\ args.auto_detect_header) =>
        LET h == FirstMarker(file.lines, 0) IN
        /\ (h # -1 /\ h < PreviewLimit) => skiprows = h + 2
        /\ h = -1 => skiprows = args.skiprows

\* every row of the returned table has at least min_valid_cols values and is
\* not entirely missing
RowsAreValid ==
    \A k \in 1..Len(df.rows) :
        /\ valid_count(df.rows[k].cells) >= args.min_valid_cols
        /\ ~all_nan(df.rows[k].cells)

\* C6 as stated: every call that returns, returns only such rows.
C6_ReturnedRowsValid == ipc = "returned" => RowsAreValid

\* C6 amended: every call with dropna=True (the default) that returns, returns
\* only rows with at least min_valid_cols non-missing values, none entirely
\* missing; with dropna=False the table is returned unfiltered.
C6_ReturnedRowsValidWhenDropna == (ipc = "returned" /\ args.dropna) => RowsAreValid

\* C6 witness: the filter removed a row with too few values and kept another
C6_Witness ==
    /\ ipc = "returned"
    /\ args.dropna
    /\ args.min_valid_cols = 2
    /\ TableLen(df.rows) > 0
    /\ \E k \in 1..Len(file.lines) : file.lines[k].line.cells = <<"num", "empty">>
    /\ TableLen(df.rows) < TableLen(ParsedRows(file, skiprows))

\* a file with no data line: empty, or metadata, title and units lines only
HeaderOnly(f) == \A k \in 1..Len(f.lines) : f.lines[k].line.kind # "data"

\* C7: for a file that is empty or holds only header/metadata lines the call
\* raises nothing and returns a table of zero rows.  Stated for the calls the
\* header detection is meant to serve: the file is empty or its title line lies
\* inside the scanned range, the file is decodable, and the row filter is on.
C7_HeaderOnlyGivesEmptyTable ==
    (/\ ImportFinished
     /\ HeaderOnly(file)
     /\ file.lines = <<>> \/ FirstMarker(file.lines, 0) \in 0..(PreviewLimit - 1)
     /\ args.auto_detect_header /\ args.dropna /\ args.coerce_numeric
     /\ args.min_valid_cols >= 1
     /\ file.undecodable = {} /\ detect_encoding(file) # "bogus")
        => (ipc = "returned" /\ TableLen(df.rows) = 0)

\* none of the candidates, nor a whitespace split, gives any sampled line the
\* expected number of columns
NothingSplits(smp) ==
    /\ \A k \in 1..Len(candidate_delims) :
          good_exact(smp, candidate_delims[k], args.expected_cols) = 0
    /\ good_ws(smp, args.expected_cols) = 0

EncodingNames == {"utf-8", "latin-1", "cp1252", "utf-16", "bogus"}

\* the detection steps raise nothing and yield values
DetectionYieldsValues ==
    /\ ipc = "raised" => reads # <<>>
    /\ ipc \notin {"idle", "start"} =>
          /\ encodings_to_try[1] \in EncodingNames
          /\ file.detected \in {"None", "error"} => encodings_to_try[1] = "utf-8"
    /\ (PastDelimiter /\ args.delimiter = "auto") => delimiter \in Candidates \cup {WS}
    /\ (PastHeader /\ args.auto_detect_header) =>
          /\ skiprows \in Nat
          /\ (FirstMarker(file.lines, 0) = -1 \/ NLines(file.lines) < PreviewLimit)
                => skiprows = args.skiprows

\* C16 as stated: whatever the content of the file, encoding, delimiter and
\* header detection raise nothing and each yields a value, which is the default
\* encoding, the default delimiter (tab) and the caller's skiprows when nothing
\* can be inferred: no line to sample, or no sampled line that any candidate or
\* a whitespace split gives the expected number of columns.
C16_DetectionDegradesToDefaults ==
    /\ DetectionYieldsValues
    /\ (PastDelimiter /\ args.delimiter = "auto") =>
          LET smp == sample(file) IN
          (smp = <<>> \/ NothingSplits(smp)) => delimiter = TAB

\* C16 amended: the same, but the delimiter degrades to tab only when no
\* non-blank data line can be sampled; when lines are sampled and neither a
\* candidate nor a whitespace split gives any of them the expected number of
\* columns, the delimiter yielded is the whitespace pattern.
C16_DetectionNeverRaises ==
    /\ DetectionYieldsValues
    /\ (PastDelimiter /\ args.delimiter = "auto") =>
          LET smp == sample(file) IN
          /\ smp = <<>> => delimiter = TAB
          /\ (smp # <<>> /\ NothingSplits(smp)) => delimiter = WS

\* C16 witness: an empty file went through the three detections
C16_Witness ==
    /\ ipc = "read"
    /\ file.lines = <<>>
    /\ file.detected = "None"
    /\ args.delimiter = "auto" /\ args.auto_detect_header
    /\ args.skiprows = 15
    /\ encodings_to_try[1] = "utf-8"
    /\ delimiter = TAB
    /\ skiprows = 15

\* the reads of the encoding loop, and whether a read parsed the file
LoopReads == SelectSeq(reads, LAMBDA r : r.pass # "flex")
DirectReads == SelectSeq(reads, LAMBDA r : r.pass = "direct")
Parsed(r) ==
    /\ ReadOutcome(file, r.encoding) = "ok"
    /\ r.pass = "coerce" \/ ~HasText(ParsedRows(file, skiprows))

\* order, budget and decoding-failure conditions on the loop's attempts
AttemptsInOrder ==
    /\ Len(DirectReads) <= args.max_retries + 1
    /\ \A k \in 1..Len(DirectReads) :
          /\ DirectReads[k].encoding = <<detect_encoding(file), "utf-8", "latin-1", "cp1252">>[k]
          /\ \A j \in 1..(k - 1) :
                ReadOutcome(file, DirectReads[j].encoding) = "UnicodeDecodeError"

\* C8 as stated: encodings are attempted in the order detected, UTF-8, Latin-1,
\* CP1252, at most max_retries+1 of them, each only after all earlier ones
\* failed to decode, and nothing is read after the first successful parse.
C8_NoReadAfterSuccess ==
    /\ AttemptsInOrder
    /\ \A k \in 1..(Len(reads) - 1) : ~Parsed(reads[k])

\* C8 amended: the same within the encoding loop; after the loop's successful
\* parse the only further read is the single flexible-separator fallback, made
\* with the detected encoding (encodings_to_try[0]) when the table is all-NaN.
C8_LoopStopsAtFirstSuccess ==
    /\ AttemptsInOrder
    /\ \A k \in 1..(Len(LoopReads) - 1) : ~Parsed(LoopReads[k])
    /\ \A k \in 1..Len(reads) :
          reads[k].pass = "flex" =>
              /\ k = Len(reads)
              /\ k > 1
              /\ Parsed(reads[k - 1])
              /\ reads[k].encoding = detect_encoding(file)

\* C8 witness: the detected encoding failed, UTF-8 parsed, the fallback re-read
C8_Witness ==
    /\ ipc = "filter"
    /\ Len(reads) = 3
    /\ reads[1].encoding = "utf-16"
    /\ reads[2].encoding = "utf-8"
    /\ reads[3].pass = "flex"

\* every encoding within the retry budget fails with a decoding error
AllEncodingsFail ==
    \A k \in 1..Min(args.max_retries + 1, 4) :
        ReadOutcome(file, <<detect_encoding(file), "utf-8", "latin-1", "cp1252">>[k])
            = "UnicodeDecodeError"

\* C9: when every encoding attempted within the budget fails with a decoding
\* error, the call never holds or returns a table, its encoding loop can always
\* take its next step, and the call ends by raising RuntimeError.
C9_AllFailRaisesRuntimeError ==
    (ipc # "idle" /\ AllEncodingsFail) =>
        /\ df.none
        /\ ipc \in {"start", "detect_delimiter", "detect_header", "read", "raised"}
        /\ ipc = "raised" => iraised = "RuntimeError"
        /\ ipc = "read" => ENABLED read_attempt

\* C9 witness: two encodings tried, both undecodable, RuntimeError raised
C9_Witness ==
    /\ ipc = "raised"
    /\ iraised = "RuntimeError"
    /\ args.max_retries = 1
    /\ Len(reads) = 2
    /\ AllEncodingsFail

(***************************************************************************)
(* Claims about the report classes (specification SpecReport)              *)
(***************************************************************************)
UnknownStandard == report.standard_test \notin DOMAIN standards_map(report.cls)

\* C10: in each of the three report classes, with a standard name that is not
\* a key of the class's map, every call of set_defl_points and of add_tests
\* ends by raising ValueError; defl_points never holds a grid; and add_tests
\* raises before any specimen file is read and before anything is appended
\* to tests.
C10_UnknownStandardRaisesValueError ==
    UnknownStandard =>
        /\ report.defl_points = <<>>
        /\ rpc \in {"constructed", "raised"}
        /\ rpc = "raised" => rraised = "ValueError"
        /\ imported = <<>>
        /\ report.tests = <<>>

\* C10 witness: add_tests on a report with samples and an unknown standard
C10_Witness ==
    /\ UnknownStandard
    /\ report.cls = "Beam_residual_strength_test_report"
    /\ report.standard_test = "EN14651"
    /\ report.samples_id # <<>>
    /\ rcall.name = "add_tests"
    /\ rpc = "raised"
    /\ rraised = "ValueError"

(***************************************************************************)
(* Claims about the specimen classes (specification SpecSpecimen)          *)
(***************************************************************************)
HasToughness == data.Toughness # <<>>
NonDecreasing(col) == \A k \in 1..(Len(col) - 1) : col[k] <= col[k + 1]
NonNegative(col) == \A k \in 1..Len(col) : col[k] >= 0

\* C11: once get_toughness has run on a dataset whose Load values are all >= 0
\* and whose integration abscissa (Deflection) does not decrease from row to
\* row, Toughness[k+1] >= Toughness[k] for every row k.
C11_ToughnessNonDecreasing ==
    (HasToughness /\ NonNegative(data.Load) /\ NonDecreasing(data.Deflection)) =>
        \A k \in 1..(NRows(data) - 1) : RLeq(data.Toughness[k], data.Toughness[k + 1])

\* C11 witness: three rows, increasing deflection, toughness computed and growing
C11_Witness ==
    /\ pc = "get_first_peak"
    /\ NRows(data) = 3
    /\ data.Deflection = <<0, 1, 2>>
    /\ data.Load = <<2, 0, 2>>
    /\ data.Toughness = <<RInt(0), RInt(1), RInt(2)>>

\* the rows whose value in the abscissa column x_col equals g
RowsAt(g) == {r \in 1..NRows(data) : Column(data, x_col)[r] = g}
CarriesRow(row, r) ==
    /\ row.Load = RInt(data.Load[r])
    /\ row.Toughness = data.Toughness[r]

\* C12 as stated: for every dataset, a grid abscissa g equal to the abscissa of
\* some data row r gives an interpolated row carrying exactly the Load and
\* Toughness of row r.
C12_ExactAtEveryNode ==
    pc = "done" =>
        \A k \in 1..Len(x_points) :
            \A r \in RowsAt(x_points[k]) : CarriesRow(defl_cps[3 + k], r)

\* C12 amended: for every dataset whose abscissa column is non-decreasing, a
\* grid abscissa g equal to the abscissa of some data row gives an interpolated
\* row carrying exactly the Load and Toughness of the last row with abscissa g
\* (the row itself when the abscissas are strictly increasing).
C12_ExactAtLastNode ==
    (pc = "done" /\ NonDecreasing(Column(data, x_col))) =>
        \A k \in 1..Len(x_points) :
            \A r \in RowsAt(x_points[k]) :
                (\A q \in RowsAt(x_points[k]) : q <= r) => CarriesRow(defl_cps[3 + k], r)

\* C12 witness: two rows share the abscissa 1, the grid asks for 1, and the
\* interpolated row holds the second row's values, which differ from the first's
C12_Witness ==
    /\ pc = "done"
    /\ x_col = "CMOD"
    /\ data.CMOD = <<1, 1, 2>>
    /\ x_points = <<0, 1, 3>>
    /\ data.Load[1] # data.Load[2]
    /\ CarriesRow(defl_cps[5], 2)

\* C13: a grid abscissa above the maximum recorded abscissa gives the Load and
\* Toughness of the last record, one below the minimum those of the first
\* record, and the Toughness variant ends without raising on such grids.
C13_FlatOutsideRange ==
    (variant = "Toughness" /\ Finished /\ ~IsEmpty(data)) =>
        /\ pc = "done"
        /\ \A k \in 1..Len(x_points) :
              /\ x_points[k] > np_max(Column(data, x_col))
                    => CarriesRow(defl_cps[3 + k], NRows(data))
              /\ x_points[k] < np_min(Column(data, x_col))
                    => CarriesRow(defl_cps[3 + k], 1)

\* C13 witness: the grid 0, 1, 3 over CMOD values within 1..2, first and last
\* records differing in Load; the outer rows hold the first and last records
C13_Witness ==
    /\ pc = "done"
    /\ x_col = "CMOD"
    /\ x_points = <<0, 1, 3>>
    /\ data.CMOD = <<1, 2, 2>>
    /\ data.Load[1] # data.Load[3]
    /\ defl_cps[4].Load = RInt(data.Load[1])
    /\ defl_cps[6].Load = RInt(data.Load[3])
    /\ defl_cps[6].Toughness = data.Toughness[3]

\* a step in which make_positive_data ran on a non-empty dataset
Positivized == (positivize_call \/ make_positive_data) /\ ~IsEmpty(data)

AbsOf(new, old) ==
    /\ Len(new) = Len(old)
    /\ \A k \in 1..Len(old) : new[k] = Abs(old[k])

\* C14: every run of make_positive_data on a non-empty dataset replaces every
\* value of the channels Load, Deflection and CMOD by its absolute value and
\* keeps the rows; a run that follows an earlier run leaves the dataset as the
\* earlier run left it.
C14_PositivizeIdempotent ==
    [][Positivized =>
          /\ data'.index = data.index
          /\ AbsOf(data'.Load, data.Load)
          /\ AbsOf(data'.Deflection, data.Deflection)
          /\ AbsOf(data'.CMOD, data.CMOD)
          /\ ncalls >= 1 => data' = data]_vars

\* C14 witness: make_positive_data ran a second time on the dataset whose Load
\* and Deflection it had made 1, 0, 2
C14_Witness ==
    /\ ncalls = 2
    /\ pc = "make_positive_data"
    /\ data.Load = <<1, 0, 2>>
    /\ data.Deflection = <<1, 0, 2>>

\* C15: preprocess_data of either variant on a dataset of zero rows ends at its
\* first step raising ValueError; no later step runs: no peak, toughness,
\* range bound or characteristic point is written.
C15_EmptyDatasetRaisesFirst ==
    NRows(data) = 0 =>
        /\ pc \in {"make_positive_data", "raised"}
        /\ pc = "raised" => raised = "ValueError"
        /\ maxLoad = 0
        /\ idx = idx0
        /\ peaks = <<>>
        /\ data.Toughness = <<>>
        /\ data_process = EmptyFrame
        /\ defl_cps = <<>>

\* C15 witness: the Resistance variant raised on a dataset of zero rows
C15_Witness ==
    /\ NRows(data) = 0
    /\ variant = "Resistance"
    /\ pc = "raised"
    /\ raised = "ValueError"

\* the Toughness variant raised on a dataset of zero rows, grid passed
C15_WitnessToughness ==
    /\ NRows(data) = 0
    /\ variant = "Toughness"
    /\ x_points # <<>>
    /\ pc = "raised"
    /\ raised = "ValueError"

\* the cumulative trapezoidal integral of Load over the column xc, row k
IntegralOver(xc, k) == cumulative_trapezoid(data.Load, Column(data, xc), k)

\* C20: for every toughness-type specimen the Toughness channel has one value
\* per data row, starts at 0, and is the cumulative trapezoidal integral of
\* Load against the column x_col that is the abscissa of the characteristic
\* points (Deflection or CMOD).
C20_ToughnessOverXCol ==
    (variant = "Toughness" /\ HasToughness) =>
        /\ Len(data.Toughness) = NRows(data)
        /\ data.Toughness[1] = RInt(0)
        /\ \A k \in 1..NRows(data) : data.Toughness[k] = IntegralOver(x_col, k)

\* the same for the specimens whose abscissa is Deflection, as the panel and
\* ASTM C1609 beam reports pass it
ToughnessOverDeflection ==
    (variant = "Toughness" /\ HasToughness /\ x_col = "Deflection") =>
        /\ Len(data.Toughness) = NRows(data)
        /\ data.Toughness[1] = RInt(0)
        /\ \A k \in 1..NRows(data) : data.Toughness[k] = IntegralOver("Deflection", k)

(***************************************************************************)
(* Claims about file handles (specification SpecReaders)                   *)
(***************************************************************************)
\* C17: when a call of detect_encoding, import_data_text, import_data_excel or
\* get_data_excel has returned or raised, every file or workbook handle it
\* opened has been closed, also when the Excel header scan failed.
C17_HandlesClosedOnReturn ==
    hpc \in {"returned", "raised"} => handles = {}

\* the same for every call but an import_data_excel whose header scan failed
HandlesClosedUnlessExcelScanFailed ==
    (/\ hpc \in {"returned", "raised"}
     /\ ~(hcall.fn = "import_data_excel" /\ hcall.auto_detect_header
            /\ "open" \notin hcall.faults /\ "scan" \in hcall.faults))
        => handles = {}


(***************************************************************************)
(* Claims about make_report_file (specification SpecGenerate)              *)
(***************************************************************************)
GenerateFinished == gpc \in {"returned", "raised"}

CollaboratorsSucceed ==
    /\ environ.excel_exists
    /\ environ.formato_exists
    /\ environ.com_ok
    /\ environ.pdf_ok

\* C18: when the report's Excel file exists and the conversion and PDF
\* collaborators succeed, Generate_test_report.make_report_file runs the
\* Excel-to-PDF conversion, the orientation normalization and the
\* header/footer overlay, in that order, and completes without raising.
C18_GeneratePipelineCompletes ==
    (report_cls = "Generate_test_report" /\ CollaboratorsSucceed /\ GenerateFinished)
        => /\ graised = "none"
           /\ stages = <<"convert_excel_to_pdf", "normalize_pdf_orientation",
                         "apply_header_footer_pdf">>

\* what the code does instead: the call ends in the page-range validation of
\* convert_excel_to_pdf with no step done, whatever the environment
GenerateEndsInValidation ==
    (report_cls = "Generate_test_report" /\ GenerateFinished)
        => /\ graised = "ValueError"
           /\ stages = <<>>

\* the same pipeline with a valid page range (the Tapa report) completes in order
ValidRangePipelineCompletes ==
    (report_cls = "Tapa_buzon_flexion_test_report" /\ CollaboratorsSucceed
        /\ environ.plot_ok /\ GenerateFinished)
        => /\ graised = "none"
           /\ stages = <<"convert_excel_to_pdf", "make_plot_report", "merge_pdfs",
                         "normalize_pdf_orientation", "apply_header_footer_pdf">>

(***************************************************************************)
(* Claims about Tapa_buzon_flexion_test (specification SpecTapa)           *)
(***************************************************************************)
\* C19: get_resultado returns 'Cumple' when maxLoad >= umbral_kN, 'No cumple'
\* when maxLoad < umbral_kN, and 'Sin datos' when the specimen has no data
\* loaded.
C19_ResultadoThreeWay ==
    [][get_resultado
        => tret' = IF IsEmpty(data) THEN "Sin datos"
                   ELSE IF maxLoad >= umbral_kN THEN "Cumple" ELSE "No cumple"]_vars

\* what the code does: the two-way comparison, with or without data
ResultadoTwoWay ==
    [][get_resultado
        => tret' = IF maxLoad >= umbral_kN THEN "Cumple" ELSE "No cumple"]_vars


(***************************************************************************)
(* Claims about the range bounds (specifications SpecResistance, SpecTough) *)
(***************************************************************************)
\* the row labels are 0..n-1: the row filter of the importer removed nothing
ContiguousLabels == \A k \in 1..NRows(data) : data.index[k] = k - 1

\* distance of the Load at position q from c percent of maxLoad, times 100
Dist(q, c) == Abs(100 * data.Load[q + 1] - c * maxLoad)

\* pos is the smallest position of lo..hi minimizing the distance to c percent
IsFirstClosest(pos, lo, hi, c) ==
    /\ pos \in lo..hi
    /\ \A q \in lo..hi : Dist(pos, c) <= Dist(q, c)
    /\ \A q \in lo..(pos - 1) : Dist(q, c) > Dist(pos, c)

\* C21: in Resistance_mechanical_test.preprocess_data, for every non-empty
\* dataset with peak position p, idx['i'] is the smallest position of [0, p]
\* minimizing |Load - 0.01*maxLoad| and idx['f'] is the smallest position of
\* [p, n-1] minimizing |Load - 0.75*maxLoad|; the first position wins ties.
C21_ResistanceBoundsClosest ==
    (variant = "Resistance" /\ pc = "done")
        => /\ IsFirstClosest(idx.i, 0, idx.maxLoad, 1)
           /\ IsFirstClosest(idx.f, idx.maxLoad, NRows(data) - 1, 75)

\* the same statement on tables whose labels are their positions
ResistanceBoundsOnContiguousLabels ==
    (variant = "Resistance" /\ pc = "done" /\ ContiguousLabels)
        => /\ IsFirstClosest(idx.i, 0, idx.maxLoad, 1)
           /\ IsFirstClosest(idx.f, idx.maxLoad, NRows(data) - 1, 75)

\* on contiguous labels a non-empty dataset never ends in an exception
ResistanceReturnsOnContiguousLabels ==
    (variant = "Resistance" /\ ContiguousLabels /\ ~IsEmpty(data)) => pc # "raised"


RangeBounded == pc \in {"get_defl_cps", "done"}

\* the rows at positions lo..n-1 of the dataset
RowsFrom(lo) == SubFrame(data, [k \in 1..(NRows(data) - lo) |-> lo + k - 1])

\* C22: in Toughness_mechanical_test.preprocess_data, for every non-empty
\* dataset of n rows idx['f'] = n-1, idx['i'] is chosen at 1% of maxLoad as in
\* the resistance variant, and data_process is every row from the lower bound
\* through the last record.
C22_ToughnessBoundsFullTail ==
    (variant = "Toughness" /\ RangeBounded)
        => /\ idx.f = NRows(data) - 1
           /\ IsFirstClosest(idx.i, 0, idx.maxLoad, 1)
           /\ data_process = RowsFrom(idx.i)

\* the same statement on tables whose labels are their positions
ToughnessBoundsOnContiguousLabels ==
    (variant = "Toughness" /\ RangeBounded /\ ContiguousLabels)
        => /\ idx.f = NRows(data) - 1
           /\ IsFirstClosest(idx.i, 0, idx.maxLoad, 1)
           /\ data_process = RowsFrom(idx.i)

\* the upper bound alone is the last position whatever the labels
UpperBoundIsLastRecord ==
    (variant = "Toughness" /\ RangeBounded) => idx.f = NRows(data) - 1


(***************************************************************************)
(* Claims about the delimiter scoring (specification SpecImport)           *)
(***************************************************************************)
\* number of lines in the runs K of the sample
RECURSIVE Weight(_, _)
Weight(smp, K) ==
    IF K = {} THEN 0
    ELSE LET k == CHOOSE j \in K : TRUE IN smp[k].n + Weight(smp, K \ {k})

\* sampled lines that candidate d splits into exactly the expected column count
ExactLines(smp, d) ==
    Weight(smp, {k \in 1..Len(smp) :
                    split_len(strip(smp[k].line.text), d) = args.expected_cols})

\* sampled lines that a whitespace-run split cuts into exactly / at least that count
WsExactLines(smp) ==
    Weight(smp, {k \in 1..Len(smp) : resplit_len(strip(smp[k].line.text)) = args.expected_cols})

WsAtLeastLines(smp) ==
    Weight(smp, {k \in 1..Len(smp) : resplit_len(strip(smp[k].line.text)) >= args.expected_cols})

\* the earliest declared candidate among those with the highest score
EarliestBest(smp) ==
    CHOOSE d \in Candidates :
        /\ \A e \in Candidates : ExactLines(smp, e) <= ExactLines(smp, d)
        /\ \A e \in DeclaredBefore(d) : ExactLines(smp, e) < ExactLines(smp, d)

\* the result when the whitespace split scores ws lines: the best candidate if
\* its score is >= 0.5, else whitespace iff it scores at least as well
Selected(smp, ws) ==
    LET best == EarliestBest(smp) IN
    IF 2 * ExactLines(smp, best) >= NLines(smp) THEN best
    ELSE IF ws >= ExactLines(smp, best) THEN WS ELSE best

\* C23 as stated: with delimiter='auto' and a non-empty sample, the result is
\* the earliest best-scoring candidate if its score is >= 0.5; otherwise the
\* whitespace-run split, scored by the same exact-count criterion, is the
\* result iff its score is at least the best candidate's.
C23_WhitespaceScoredByExactCount ==
    (PastDelimiter /\ args.delimiter = "auto") =>
        LET smp == sample(file) IN
        smp # <<>> => delimiter = Selected(smp, WsExactLines(smp))

\* C23 amended: the whitespace-run split is scored by the fraction of sampled
\* lines it cuts into at least the expected column count.
C23_WhitespaceScoredByAtLeastCount ==
    (PastDelimiter /\ args.delimiter = "auto") =>
        LET smp == sample(file) IN
        smp # <<>> => delimiter = Selected(smp, WsAtLeastLines(smp))

\* C23 witness: no candidate reaches 0.5 and lines with a column too many
\* make the whitespace split win
C23_Witness ==
    /\ PastDelimiter
    /\ args.delimiter = "auto"
    /\ LET smp == sample(file)
           best == IF smp = <<>> THEN 0 ELSE ExactLines(smp, EarliestBest(smp))
       IN  /\ smp # <<>>
           /\ 2 * best < NLines(smp)
           /\ WsExactLines(smp) < best
           /\ WsAtLeastLines(smp) >= best
           /\ delimiter = WS


(***************************************************************************)
(* Claims about import_data_excel (specification SpecExcel)                *)
(***************************************************************************)
HeaderDetected == xpc \in {"read_excel", "dropna", "returned", "raised"} /\ header_candidate # 0

\* C24: a worksheet row is accepted as the header row only if the number m of
\* expected names found among its cells satisfies m >= 2 and m >= 0.6*n, that
\* is 10*m >= 6*n, for every number n of expected column names.
C24_HeaderNeedsSixtyPercent ==
    HeaderDetected
        => /\ sheet[header_candidate].matches >= 2
           /\ 10 * sheet[header_candidate].matches >= 6 * xargs.nnames

\* what the code guarantees: m >= 2 and m >= the integer part of 0.6*n
HeaderNeedsTruncatedSixtyPercent ==
    HeaderDetected
        => /\ sheet[header_candidate].matches >= 2
           /\ 10 * (sheet[header_candidate].matches + 1) > 6 * xargs.nnames

\* C25: when the header is detected at worksheet row r, the first row of the
\* returned table is the content of worksheet row r+1: the row following the
\* header is the first data row, neither skipped nor consumed as a header.
C25_DataStartsAfterHeader ==
    (xpc = "returned" /\ header_candidate # 0 /\ header_candidate < Len(sheet)
        /\ sheet[header_candidate + 1].kind = "num" /\ ~sheet[header_candidate + 1].nan)
        => /\ xdf # <<>>
           /\ xdf[1].src = header_candidate + 1

\* what the code does: the row after the header is never in the returned table
RowAfterHeaderIsConsumed ==
    (xpc = "returned" /\ header_candidate # 0)
        => \A k \in 1..Len(xdf) : xdf[k].src >= header_candidate + 2


(***************************************************************************)
(* Claims about the fallback pass (specification SpecImport)               *)
(***************************************************************************)
FlexReads == {k \in 1..Len(reads) : reads[k].pass = "flex"}

EntirelyMissing(row) == \A c \in 1..Len(row.cells) : row.cells[c] = "nan"

\* the table is non-empty and every row of it is entirely missing
NonEmptyAllMissing(t) ==
    /\ \E k \in 1..Len(t.rows) : t.rows[k].n > 0
    /\ \A k \in 1..Len(t.rows) : EntirelyMissing(t.rows[k])

HasDataRow(t) == \E k \in 1..Len(t.rows) : t.rows[k].n > 0 /\ ~EntirelyMissing(t.rows[k])

\* C26: the flexible-separator fallback pass runs at most once per call, and
\* only when the table obtained from the encoding loop is non-empty with every
\* row entirely missing; its result replaces the table only if it contains a
\* row that is not entirely missing, otherwise (also when the fallback pass
\* itself raises) the earlier table is kept and no exception propagates.
C26_FallbackOnceWhenAllMissing ==
    /\ [](Cardinality(FlexReads) <= 1)
    /\ [][fallback_pass =>
            /\ reads' # reads => NonEmptyAllMissing(df)
            /\ df' # df => (reads' # reads /\ HasDataRow(df'))
            /\ iraised' = "none"
            /\ ipc' = "filter"]_vars

\* C26 witness: the fallback ran on an all-missing table and its result, which
\* has a row with data, replaced it
C26_Witness ==
    /\ ipc = "filter"
    /\ FlexReads # {}
    /\ HasDataRow(df)

\* C26 second witness: the fallback ran and failed, the all-missing table is kept
C26_WitnessKept ==
    /\ ipc = "filter"
    /\ FlexReads # {}
    /\ file.flex.error
    /\ NonEmptyAllMissing(df)


(***************************************************************************)
(* Claims about the step order (specification SpecSpecimen)                *)
(***************************************************************************)
\* positivize, locate peak, toughness curve, first peak, range bounds,
\* characteristic points
ToughnessOrder ==
    <<"make_positive_data", "get_max_load", "get_toughness", "get_first_peak",
      "range_bounds", "get_defl_cps", "done">>

\* positivize, locate peak, range bounds and processed dataset
ResistanceOrder == <<"make_positive_data", "get_max_load", "resistance_bounds", "done">>

StepOrder == IF variant = "Toughness" THEN ToughnessOrder ELSE ResistanceOrder

\* the number of steps of the run that have completed
StepsDone == CHOOSE k \in 0..(Len(StepOrder) - 1) : StepOrder[k + 1] = pc

Running == pc # "raised"

\* what each step has left behind for the later ones
PeakWritten ==
    /\ NonNegative(data.Load)
    /\ maxLoad = np_max(data.Load)
    /\ idx.maxLoad \in 0..(NRows(data) - 1)
    /\ data.Load[idx.maxLoad + 1] = maxLoad

ToughnessWritten == Len(data.Toughness) = NRows(data)

FirstPeakWritten == idx.iL = idx.maxLoad \/ (peaks # <<>> /\ idx.iL = peaks[1])

BoundsWritten == idx.f = NRows(data) - 1 /\ idx.i \in 0..idx.maxLoad

\* C27: every run of preprocess_data executes its steps in the fixed order
\* (Toughness: positivize, locate peak, toughness curve, first peak, range
\* bounds, characteristic points; Resistance: positivize, locate peak, range
\* bounds, processed dataset), and when a step starts, the index-map entries,
\* maxLoad and derived channels it reads have been written by earlier steps
\* of the same run.
C27_FixedStepOrder ==
    /\ [][pc' # pc =>
            \/ pc' = "raised"
            \/ \E k \in 1..(Len(StepOrder) - 1) : pc = StepOrder[k] /\ pc' = StepOrder[k + 1]]_vars
    /\ [](Running =>
            /\ StepsDone >= 2 => PeakWritten
            /\ (variant = "Toughness" /\ StepsDone >= 3) => ToughnessWritten
            /\ (variant = "Toughness" /\ StepsDone >= 4) => FirstPeakWritten
            /\ (variant = "Toughness" /\ StepsDone >= 5) => BoundsWritten)

\* C27 witness: a complete Toughness run whose written values differ from the
\* constructor defaults
C27_Witness ==
    /\ variant = "Toughness"
    /\ pc = "done"
    /\ maxLoad > 0
    /\ idx.maxLoad > 0
    /\ idx.f > 0
    /\ idx.iL > 0

\* C27 second witness: a complete Resistance run
C27_WitnessResistance ==
    /\ variant = "Resistance"
    /\ pc = "done"
    /\ idx.maxLoad > 0
    /\ idx.f > idx.i


(***************************************************************************)
(* Claims about tables with filtered rows (specifications SpecTough,       *)
(* SpecResistance)                                                         *)
(***************************************************************************)
\* the record of the dataset at position p (0-based), as a row of defl_cps
RecordAt(p) ==
    [x |-> RInt(Column(data, x_col)[p + 1]), Load |-> RInt(data.Load[p + 1]),
     Toughness |-> data.Toughness[p + 1]]

NamedRowsAreRecords ==
    /\ raised # "KeyError"
    /\ pc = "done" =>
          /\ Len(defl_cps) >= 3
          /\ defl_cps[1] = RecordAt(idx.iL)
          /\ defl_cps[2] = RecordAt(idx.maxLoad)
          /\ defl_cps[2].Load = RInt(maxLoad)
          /\ defl_cps[3] = RecordAt(NRows(data) - 1)

\* C28: for every non-empty table returned by the importers, also one from
\* which the row filter removed rows (labels no longer 0..n-1), the three
\* named rows of the characteristic-point table are the records at the
\* first-peak position, at the peak position (its Load equals maxLoad) and at
\* the last record, and building them raises no lookup error.
C28_NamedRowsOnAnyLabels ==
    (Finished /\ ~IsEmpty(data)) => NamedRowsAreRecords

\* the same statement on tables whose labels are their positions
NamedRowsOnContiguousLabels ==
    (Finished /\ ~IsEmpty(data) /\ ContiguousLabels) => (pc = "done" /\ NamedRowsAreRecords)


\* the peak row is among the rows of data_process
ProcessedHoldsPeak ==
    /\ ~IsEmpty(data_process)
    /\ np_max(data_process.Load) = maxLoad

ResistanceIndexOrder ==
    /\ 0 <= idx.i
    /\ idx.i <= idx.maxLoad
    /\ idx.maxLoad <= idx.f
    /\ idx.f <= NRows(data) - 1
    /\ ProcessedHoldsPeak

ToughnessIndexOrder ==
    /\ 0 <= idx.i
    /\ idx.i <= idx.maxLoad
    /\ idx.maxLoad <= idx.f
    /\ idx.f = NRows(data) - 1
    /\ 0 <= idx.iL
    /\ idx.iL <= idx.maxLoad
    /\ ProcessedHoldsPeak

\* C29: after preprocess_data returns on a non-empty imported dataset of n
\* rows, labels contiguous or not, 0 <= idx['i'] <= idx['maxLoad'] <= idx['f']
\* <= n-1; the toughness variant also has 0 <= idx['iL'] <= idx['maxLoad'] and
\* idx['f'] = n-1; data_process is non-empty and contains the peak row, so its
\* maximum Load equals maxLoad.
C29_IndexMapOrdered ==
    (pc = "done" /\ ~IsEmpty(data))
        => IF variant = "Toughness" THEN ToughnessIndexOrder ELSE ResistanceIndexOrder

\* the Resistance part on tables whose labels are their positions
ResistanceIndexOrderOnContiguousLabels ==
    (pc = "done" /\ variant = "Resistance" /\ ContiguousLabels) => ResistanceIndexOrder

\* the Toughness part holds on every table, once the range bounds are set
ToughnessIndexOrderOnAnyLabels ==
    (variant = "Toughness" /\ RangeBounded) => ToughnessIndexOrder


(***************************************************************************)
(* Claims about the Tapa summary (specification SpecTapa)                  *)
(***************************************************************************)
\* C30: after any sequence of set_umbral, get_max_load, get_resultado and
\* get_resumen calls, the 'resultado' field returned by get_resumen is
\* 'Cumple' if and only if the maxLoad_kN field of the same summary is >= its
\* umbral_kN field.
C30_ResumenConsistent ==
    tcall = "get_resumen"
        => (tret.resultado = "Cumple" <=> tret.maxLoad_kN >= tret.umbral_kN)

\* a summary taken before any verdict was cached is consistent
FreshResumenConsistent ==
    [][(get_resumen /\ resultado = "")
        => (tret'.resultado = "Cumple" <=> tret'.maxLoad_kN >= tret'.umbral_kN)]_vars

\* otherwise the summary repeats the verdict cached by an earlier call
ResumenRepeatsCachedVerdict ==
    [][(get_resumen /\ resultado # "") => tret'.resultado = resultado]_vars

====
